---- MODULE Spec2Model ----
(***************************************************************************)
(* A model of the Flask backend in src/app.py: every endpoint handler is   *)
(* one action over the Firestore collections and the Firebase Auth         *)
(* identity table.  The HTTP request last served and its response are      *)
(* kept in the state so that properties can speak about "after handler H   *)
(* answered 200".                                                          *)
(***************************************************************************)
EXTENDS Integers, Sequences, FiniteSets, TLC

(***************************************************************************)
(* Bounds of the model.                                                    *)
(***************************************************************************)
\* connectionRequests documents ever created
MaxRequests == 2
\* notification documents ever created
MaxNotifs == 3
\* projects documents ever created
MaxProjects == 1
\* notification documents ever created, where an invitation is answered twice
MaxTeamNotifs == 4
\* comments added to projects
MaxComments == 1

(***************************************************************************)
(* Values.                                                                 *)
(***************************************************************************)
\* Python's None: a JSON body field that is absent, dict.get() of a missing key
NONE == "None"
\* a document-id valued field that is absent (auto ids are 1, 2, ...)
NoId == 0

\* uid strings: Firebase Auth hands them out, request bodies may carry any
Uids == {"u1", "u2", "u10"}

\* the code points of a uid string, as Python's str comparison reads them
UidChars(u) ==
    CASE u = "u1"  -> <<"u", "1">>
      [] u = "u2"  -> <<"u", "2">>
      [] u = "u10" -> <<"u", "1", "0">>

Truthy(x) == x # NONE /\ x # ""
\* strings the model spells out character by character (passwords, dates):
\* the absent and the empty one both fail Python's truth test
NoChars == <<>>
TruthyChars(s) == s # NoChars

VARIABLES
    identities,   \* Firebase Auth: set of [uid, email, password]
    users,        \* collection "users": uid -> document
    requests,     \* collection "connectionRequests": id -> document
    notifs,       \* users/{uid}/notifications: uid -> set of documents
    projects,     \* collection "projects": id -> document
    messages,     \* conversations/{id}/messages: id -> documents, oldest first
    comments,     \* projects/{id}/comments: project id -> set of documents
    autoId,       \* number of auto-generated ids used, per collection
    request,      \* the HTTP request last served: [route, body]
    response,     \* its response: [code, body]
    before,       \* the store as the handler of that request found it
    cancelling,   \* cancel-connection-request between its query and its deletes
    running       \* handler threads serving a request step by step: thread ->
                  \* its position and local variables

vars == <<identities, users, requests, notifs, projects, messages, comments,
          autoId, request, response, before, cancelling, running>>

\* no cancel-connection-request is under way
Idle == [active |-> FALSE, from_user |-> NONE, to_user |-> NONE, query |-> {}]

\* the server's threads that serve requests step by step, and one that
\* serves none
Threads == {1, 2}
NotRunning == [pc |-> "idle"]

\* the documents held by Firebase Auth and Firestore
Store == [identities |-> identities, users |-> users, requests |-> requests,
          notifs |-> notifs, projects |-> projects, messages |-> messages,
          comments |-> comments]

Init ==
    /\ identities = {}
    /\ users = <<>>
    /\ requests = <<>>
    /\ notifs = [u \in Uids |-> {}]
    /\ projects = <<>>
    /\ messages = <<>>
    /\ comments = <<>>
    /\ autoId = [connectionRequests |-> 0, notifications |-> 0, projects |-> 0,
                 comments |-> 0]
    /\ request = [route |-> "none"]
    /\ response = [code |-> 0, body |-> [message |-> "none"]]
    /\ before = Store
    /\ cancelling = Idle
    /\ running = [t \in Threads |-> NotRunning]

\* request.get_json() of a request routed to the handler of route, which
\* runs to its return with no other handler in between
Serve(route, body) ==
    /\ request' = [route |-> route, body |-> body]
    /\ before' = Store
    /\ UNCHANGED <<cancelling, running>>

\* return jsonify(body), code
Respond(code, body) == response' = [code |-> code, body |-> body]
Error(code, text) == Respond(code, [error |-> text])
Message(code, text) == Respond(code, [message |-> text])

(***************************************************************************)
(* create-user                                                             *)
(***************************************************************************)
Digits == {"0", "1", "2", "3", "4", "5", "6", "7", "8", "9"}
Specials == {"@", "$", "!", "%", "*", "?", "&"}

\* re.compile(r'^(?=.*\d)(?=.*[@$!%*?&]).{10,}$').match(password), for
\* passwords without line breaks
password_pattern(pw) ==
    /\ \E i \in 1..Len(pw) : pw[i] \in Digits
    /\ \E i \in 1..Len(pw) : pw[i] \in Specials
    /\ Len(pw) >= 10

\* str.lower() on the e-mail addresses of the model
Lower(e) ==
    CASE e = "Ann@x.com" -> "ann@x.com"
      [] OTHER -> e

\* bcrypt.hashpw(password, gensalt()): the hash stands for its password
hashpw(pw) == [hashOf |-> pw]

\* the uids auth.create_user() may hand out
NewUids == {"u1", "u2"}

\* a lookup that never finds the address
get_user_by_email_Never(email) == FALSE

\* auth.get_user_by_email(email) finds an identity
get_user_by_email(email) == \E i \in identities : i.email = email

create_user(firstName, surname, telephone, email, password) ==
    /\ Serve("create-user",
             [firstName |-> firstName, surname |-> surname, email |-> email,
              password |-> password])
    /\ UNCHANGED <<requests, notifs, projects, messages, comments, autoId>>
    /\ IF email = NONE
       THEN \* None.lower() raises AttributeError: the blanket except answers
            /\ Error(500, "'NoneType' object has no attribute 'lower'")
            /\ UNCHANGED <<identities, users>>
       ELSE IF ~(Truthy(firstName) /\ Truthy(surname) /\ Truthy(Lower(email))
                 /\ TruthyChars(password))
       THEN /\ Error(400, "First name, surname, email, and password are required")
            /\ UNCHANGED <<identities, users>>
       ELSE IF ~password_pattern(password)
       THEN /\ Error(400, "Password must be at least 10 characters long and include at least one number and one special character.")
            /\ UNCHANGED <<identities, users>>
       ELSE IF get_user_by_email(Lower(email))
       THEN /\ Error(400, "User already exists")
            /\ UNCHANGED <<identities, users>>
       ELSE \E uid \in NewUids \ {i.uid : i \in identities} :
            /\ identities' = identities \cup
                   {[uid |-> uid, email |-> Lower(email), password |-> password]}
            /\ users' = users @@ (uid :>
                   [firstName |-> firstName, surname |-> surname,
                    telephone |-> telephone, email |-> Lower(email),
                    uid |-> uid, connections |-> <<>>,
                    password_hash |-> hashpw(password)])
            /\ Respond(201, [message |-> "User created successfully!",
                              userId |-> uid])

(***************************************************************************)
(* update-user-settings, update-user-password, update-user                 *)
(***************************************************************************)
\* the shortest password firebase_admin.auth accepts
MinAuthPassword == 6

\* auth.update_user(user_id, password=new_password) on an existing identity
auth_update_user(user_id, new_password) ==
    {IF i.uid = user_id THEN [i EXCEPT !.password = new_password] ELSE i :
        i \in identities}
HasIdentity(user_id) == \E i \in identities : i.uid = user_id

update_user_settings(user_id, new_telephone) ==
    /\ Serve("update-user-settings",
             [userId |-> user_id, telephone |-> new_telephone])
    /\ UNCHANGED <<identities, requests, notifs, projects, messages, comments, autoId>>
    /\ IF ~Truthy(user_id)
       THEN /\ Error(400, "userId is required")
            /\ UNCHANGED users
       ELSE IF ~Truthy(new_telephone)
       THEN /\ Error(400, "No data provided to update")
            /\ UNCHANGED users
       ELSE IF user_id \notin DOMAIN users
       THEN \* DocumentReference.update() of a missing document raises NotFound
            /\ Error(500, "NotFound")
            /\ UNCHANGED users
       ELSE /\ users' = [users EXCEPT ![user_id].telephone = new_telephone]
            /\ Message(200, "User settings updated successfully")

update_user_password(user_id, new_password) ==
    /\ Serve("update-user-password",
             [userId |-> user_id, newPassword |-> new_password])
    /\ UNCHANGED <<requests, notifs, projects, messages, comments, autoId>>
    /\ IF ~Truthy(user_id) \/ ~TruthyChars(new_password)
       THEN /\ Error(400, "userId and newPassword are required")
            /\ UNCHANGED <<identities, users>>
       ELSE IF ~password_pattern(new_password)
       THEN /\ Error(400, "New password must be at least 10 characters long and include at least one number and one special character.")
            /\ UNCHANGED <<identities, users>>
       ELSE IF ~HasIdentity(user_id)
       THEN \* auth.update_user raises UserNotFoundError
            /\ Error(500, "UserNotFoundError")
            /\ UNCHANGED <<identities, users>>
       ELSE /\ identities' = auth_update_user(user_id, new_password)
            \* set(..., merge=True); every identity has its user document
            /\ users' = [users EXCEPT ![user_id].password_hash =
                                          hashpw(new_password)]
            /\ Message(200, "Password updated successfully")

update_user(user_id, new_telephone, new_password, new_first_name, new_surname) ==
    /\ Serve("update-user",
             [userId |-> user_id, telephone |-> new_telephone,
              newPassword |-> new_password, firstName |-> new_first_name,
              surname |-> new_surname])
    /\ UNCHANGED <<requests, notifs, projects, messages, comments, autoId>>
    /\ IF ~Truthy(user_id)
       THEN /\ Error(400, "userId is required")
            /\ UNCHANGED <<identities, users>>
       ELSE IF TruthyChars(new_password) /\ Len(new_password) < MinAuthPassword
       THEN \* auth.update_user validates its arguments and raises ValueError
            /\ Error(500, "Invalid password string")
            /\ UNCHANGED <<identities, users>>
       ELSE IF TruthyChars(new_password) /\ ~HasIdentity(user_id)
       THEN /\ Error(500, "UserNotFoundError")
            /\ UNCHANGED <<identities, users>>
       ELSE LET identities1 == IF TruthyChars(new_password)
                               THEN auth_update_user(user_id, new_password)
                               ELSE identities
                has_update == \/ Truthy(new_first_name) \/ Truthy(new_surname)
                              \/ Truthy(new_telephone) \/ TruthyChars(new_password)
            IN /\ identities' = identities1
               /\ IF has_update /\ user_id \notin DOMAIN users
                  THEN /\ Error(500, "NotFound")
                       /\ UNCHANGED users
                  ELSE /\ users' =
                            IF has_update
                            THEN [users EXCEPT ![user_id] =
                                    [@ EXCEPT
                                       !.firstName = IF Truthy(new_first_name)
                                                     THEN new_first_name ELSE @,
                                       !.surname = IF Truthy(new_surname)
                                                   THEN new_surname ELSE @,
                                       !.telephone = IF Truthy(new_telephone)
                                                     THEN new_telephone ELSE @,
                                       !.password_hash =
                                           IF TruthyChars(new_password)
                                           THEN hashpw(new_password) ELSE @]]
                            ELSE users
                       /\ Message(200, "User updated successfully")

(***************************************************************************)
(* The accounts service.                                                   *)
(***************************************************************************)
ValidPassword == <<"A", "b", "c", "d", "e", "f", "1", "2", "3", "4", "!">>
ShortPassword == <<"a", "b", "c", "1", "!">>
\* too short, no digit, no special character
WeakPasswords ==
    { ShortPassword,
      <<"A", "b", "c", "d", "e", "f", "g", "h", "i", "j", "!">>,
      <<"A", "b", "c", "d", "e", "f", "1", "2", "3", "4", "5">> }
Emails == {"ann@x.com", "Ann@x.com", "bob@x.com"}

\* create-user bodies: complete ones, and ones with a field missing or a
\* weak password; [first name, e-mail, password]
CreateUserInputs ==
    ({"Ann"} \X Emails \X {ValidPassword})
        \cup {<<NONE, "ann@x.com", ValidPassword>>,
               <<"Ann", NONE, ValidPassword>>,
               <<"Ann", "ann@x.com", NoChars>>}
        \cup ({"Ann"} \X {"bob@x.com"} \X WeakPasswords)

NextUsers ==
    \/ \E i \in CreateUserInputs : create_user(i[1], "Lee", "", i[2], i[3])
    \/ \E user_id \in NewUids \cup {NONE}, new_telephone \in {"555", NONE} :
           update_user_settings(user_id, new_telephone)
    \/ \E user_id \in NewUids \cup {NONE},
          new_password \in {ValidPassword, NoChars, ShortPassword} :
           update_user_password(user_id, new_password)
    \/ \E user_id \in NewUids \cup {NONE}, new_first_name \in {"Bob", NONE},
          new_password \in {NoChars} \cup WeakPasswords :
           update_user(user_id, NONE, new_password, new_first_name, NONE)

SpecUsers == Init /\ [][NextUsers]_vars

(***************************************************************************)
(* Notifications.  A document keeps the fields some handler reads back;    *)
(* a field the writer leaves out is NONE / NoId.                           *)
(***************************************************************************)
Notification(id, type) ==
    [id |-> id, type |-> type, status |-> "unread", message |-> "",
     connectionRequestId |-> NoId, projectId |-> NoId, ownerId |-> NONE,
     conversationId |-> NoChars]

\* the step takes no more auto-generated ids than the bounds leave
Within(maxNotifs) ==
    /\ autoId'.connectionRequests <= MaxRequests
    /\ autoId'.notifications <= maxNotifs
    /\ autoId'.projects <= MaxProjects
    /\ autoId'.comments <= MaxComments

\* the id .document() generates next in a collection
NextId(coll) == autoId[coll] + 1
TakeId(coll) == [autoId EXCEPT ![coll] = @ + 1]

(***************************************************************************)
(* send-connection-request                                                 *)
(***************************************************************************)
\* a notification that forgets which request it announces
notification_data_NoRequestId(nid, rid) == Notification(nid, "request")

\* notification_data of send_connection_request, written under id nid
notification_data(nid, rid) ==
    [Notification(nid, "request") EXCEPT !.connectionRequestId = rid]

send_connection_request(from_user, to_user) ==
    /\ Serve("send-connection-request",
             [fromUserId |-> from_user, toUserId |-> to_user])
    /\ UNCHANGED <<identities, users, projects, messages, comments>>
    /\ IF ~Truthy(from_user) \/ ~Truthy(to_user)
       THEN /\ Error(400, "Both fromUserId and toUserId are required")
            /\ UNCHANGED <<requests, notifs, autoId>>
       ELSE LET rid == NextId("connectionRequests")
                nid == NextId("notifications")
            IN    /\ requests' = requests @@ (rid :>
                         [fromUserId |-> from_user, toUserId |-> to_user,
                          status |-> "pending"])
                  /\ notifs' = [notifs EXCEPT ![to_user] = @ \cup
                         {notification_data(nid, rid)}]
                  /\ autoId' = [autoId EXCEPT !.connectionRequests = rid,
                                              !.notifications = nid]
                  /\ Respond(200, [message |-> "Connection request sent",
                                   requestId |-> rid])

(***************************************************************************)
(* cancel-connection-request                                               *)
(***************************************************************************)
\* requests_ref.where(fromUserId).where(toUserId).where(status == pending)
PendingRequests(from_user, to_user) ==
    {r \in DOMAIN requests : /\ requests[r].fromUserId = from_user
                             /\ requests[r].toUserId = to_user
                             /\ requests[r].status = "pending"}

\* a cancel that leaves the notifications alone
DeleteRequestNotifs_Keep(ns, rids) == ns

\* notifications of a user left after those referencing the requests rids
\* are deleted
DeleteRequestNotifs(ns, rids) == {n \in ns : n.connectionRequestId \notin rids}

cancel_connection_request(from_user, to_user) ==
    /\ Serve("cancel-connection-request",
             [fromUserId |-> from_user, toUserId |-> to_user])
    /\ UNCHANGED <<identities, users, projects, messages, comments, autoId>>
    /\ IF ~Truthy(from_user) \/ ~Truthy(to_user)
       THEN /\ Error(400, "Both fromUserId and toUserId are required")
            /\ UNCHANGED <<requests, notifs>>
       ELSE LET query == PendingRequests(from_user, to_user)
            IN IF query # {}
               THEN /\ notifs' = [notifs EXCEPT ![to_user] =
                                      DeleteRequestNotifs(@, query)]
                    /\ requests' = [r \in DOMAIN requests \ query |-> requests[r]]
                    /\ Message(200, "Connection request cancelled")
               ELSE /\ Error(404, "No pending request found")
                    /\ UNCHANGED <<requests, notifs>>

(***************************************************************************)
(* respond-connection-request                                              *)
(***************************************************************************)
\* a dedup scan that never finds the uid
HasUid_Never(connections, uid) == FALSE

\* any(conn.get("uid") == uid for conn in connections)
HasUid(connections, uid) ==
    \E i \in 1..Len(connections) : connections[i].uid = uid

\* connection_info_for_from / connection_info_for_to
connection_info(uid, data) ==
    [uid |-> uid, firstName |-> data.firstName, surname |-> data.surname,
     email |-> data.email, telephone |-> data.telephone]

\* an accept that writes the requester's list only
Connect_FromOnly(from_user, to_user) ==
    IF from_user \in DOMAIN users /\ to_user \in DOMAIN users
    THEN [users EXCEPT ![from_user].connections =
             IF HasUid(@, to_user) THEN @
             ELSE Append(@, connection_info(to_user, users[to_user]))]
    ELSE users

\* the users collection after an accepted request from from_user to to_user:
\* both documents are read, then each list is appended to and written back
\* if it lacks the other's uid
Connect(from_user, to_user) ==
    IF from_user \in DOMAIN users /\ to_user \in DOMAIN users
    THEN LET from_data == users[from_user]
             to_data == users[to_user]
             connection_info_for_from == connection_info(to_user, to_data)
             connection_info_for_to == connection_info(from_user, from_data)
             from_connections == from_data.connections
             to_connections == to_data.connections
             users1 == IF ~HasUid(from_connections, to_user)
                       THEN [users EXCEPT ![from_user].connections =
                                Append(from_connections, connection_info_for_from)]
                       ELSE users
         IN IF ~HasUid(to_connections, from_user)
            THEN [users1 EXCEPT ![to_user].connections =
                     Append(to_connections, connection_info_for_to)]
            ELSE users1
    ELSE users

respond_connection_request(request_id, action) ==
    /\ Serve("respond-connection-request",
             [requestId |-> request_id, action |-> action])
    /\ UNCHANGED <<identities, projects, messages, comments>>
    /\ IF request_id = NoId \/ action \notin {"accepted", "rejected"}
       THEN /\ Error(400, "requestId and a valid action (accepted or rejected) are required")
            /\ UNCHANGED <<users, requests, notifs, autoId>>
       ELSE IF request_id \notin DOMAIN requests
       THEN /\ Error(404, "Connection request not found")
            /\ UNCHANGED <<users, requests, notifs, autoId>>
       ELSE LET from_user == requests[request_id].fromUserId
                to_user == requests[request_id].toUserId
                nid == NextId("notifications")
                notifs1 == [notifs EXCEPT ![to_user] =
                                DeleteRequestNotifs(@, {request_id})]
            IN /\ requests' = [requests EXCEPT ![request_id].status = action]
               /\ users' = IF action = "accepted"
                           THEN Connect(from_user, to_user) ELSE users
               /\ notifs' = [notifs1 EXCEPT ![from_user] = @ \cup
                                {[Notification(nid, "response")
                                     EXCEPT !.message = action]}]
               /\ autoId' = TakeId("notifications")
               /\ Message(200, action)

(***************************************************************************)
(* disconnect                                                              *)
(***************************************************************************)
\* a filter with the comparison inverted
WithoutUid_Inverted(connections, uid) ==
    SelectSeq(connections, LAMBDA conn : conn.uid = uid)

\* a rewrite that empties the list
WithoutUid_Empty(connections, uid) == <<>>

\* [conn for conn in connections if conn.get("uid") != uid]
WithoutUid(connections, uid) ==
    SelectSeq(connections, LAMBDA conn : conn.uid # uid)

disconnect(user_id, disconnect_user_id) ==
    /\ Serve("disconnect",
             [userId |-> user_id, disconnectUserId |-> disconnect_user_id])
    /\ UNCHANGED <<identities, requests, notifs, projects, messages, comments, autoId>>
    /\ IF ~Truthy(user_id) \/ ~Truthy(disconnect_user_id)
       THEN /\ Error(400, "userId and disconnectUserId are required")
            /\ UNCHANGED users
       ELSE IF user_id \notin DOMAIN users \/ disconnect_user_id \notin DOMAIN users
       THEN /\ Error(404, "One or both users not found")
            /\ UNCHANGED users
       ELSE LET updated_user_connections ==
                    WithoutUid(users[user_id].connections, disconnect_user_id)
                updated_disconnect_connections ==
                    WithoutUid(users[disconnect_user_id].connections, user_id)
                users1 == [users EXCEPT
                              ![user_id].connections = updated_user_connections]
            IN /\ users' = [users1 EXCEPT ![disconnect_user_id].connections =
                                              updated_disconnect_connections]
               /\ Message(200, "Disconnected successfully")

(***************************************************************************)
(* The connections service: accounts, requests, connections lists.         *)
(***************************************************************************)
ConnUids == {"u1", "u2"}
\* request bodies naming two users, one of them possibly missing
UidPairs == (ConnUids \X ConnUids) \cup {<<NONE, "u1">>, <<"u2", NONE>>}
\* request bodies of respond-connection-request
RespondInputs ==
    ((1..MaxRequests) \X {"accepted", "rejected"})
        \cup {<<NoId, "accepted">>, <<1, NONE>>}

NextConn ==
    \/ \E email \in {"ann@x.com", "bob@x.com"} :
           create_user("Ann", "Lee", "", email, ValidPassword)
    \/ \E p \in UidPairs :
           send_connection_request(p[1], p[2]) /\ Within(MaxNotifs)
    \/ \E p \in UidPairs : cancel_connection_request(p[1], p[2])
    \/ \E p \in RespondInputs :
           respond_connection_request(p[1], p[2]) /\ Within(MaxNotifs)
    \/ \E p \in UidPairs : disconnect(p[1], p[2])

SpecConn == Init /\ [][NextConn]_vars

(***************************************************************************)
(* cancel-connection-request beside a concurrent respond-connection-       *)
(* request.  The handler reads the pending requests with one query and     *)
(* deletes each document it was handed by id; the server runs handlers in  *)
(* parallel threads, so another request can be served between the two.     *)
(***************************************************************************)
\* lines 286-294: the body is read and the query yields its documents
cancel_query(from_user, to_user) ==
    /\ ~cancelling.active
    /\ UNCHANGED running
    /\ request' = [route |-> "cancel-connection-request",
                   body |-> [fromUserId |-> from_user, toUserId |-> to_user]]
    /\ before' = Store
    /\ UNCHANGED <<identities, users, requests, notifs, projects, messages,
                   comments, autoId>>
    /\ IF ~Truthy(from_user) \/ ~Truthy(to_user)
       THEN /\ Error(400, "Both fromUserId and toUserId are required")
            /\ UNCHANGED cancelling
       ELSE /\ cancelling' = [active |-> TRUE, from_user |-> from_user,
                              to_user |-> to_user,
                              query |-> PendingRequests(from_user, to_user)]
            /\ UNCHANGED response

\* lines 295-305: for each document of the query its notifications and the
\* document itself are deleted, whatever its status has become
cancel_delete ==
    /\ cancelling.active
    /\ UNCHANGED running
    /\ request' = [route |-> "cancel-connection-request",
                   body |-> [fromUserId |-> cancelling.from_user,
                             toUserId |-> cancelling.to_user]]
    /\ before' = Store
    /\ UNCHANGED <<identities, users, projects, messages, comments, autoId>>
    /\ notifs' = [notifs EXCEPT ![cancelling.to_user] =
                      DeleteRequestNotifs(@, cancelling.query)]
    /\ requests' = [r \in DOMAIN requests \ cancelling.query |-> requests[r]]
    /\ IF cancelling.query # {}
       THEN Message(200, "Connection request cancelled")
       ELSE Error(404, "No pending request found")
    /\ cancelling' = Idle

NextRace ==
    \/ \E p \in ConnUids \X ConnUids :
           send_connection_request(p[1], p[2]) /\ Within(MaxNotifs)
    \/ \E p \in UidPairs : cancel_query(p[1], p[2])
    \/ cancel_delete
    \/ \E p \in (1..MaxRequests) \X {"accepted", "rejected"} :
           respond_connection_request(p[1], p[2]) /\ Within(MaxNotifs)

SpecRace == Init /\ [][NextRace]_vars

(***************************************************************************)
(* datetime.strptime(deadline_str, "%Y-%m-%d")                             *)
(***************************************************************************)
DigitChars == <<"0", "1", "2", "3", "4", "5", "6", "7", "8", "9">>
DigitValue(c) == (CHOOSE n \in 1..Len(DigitChars) : DigitChars[n] = c) - 1
IsDigit(s, i) == i <= Len(s) /\ s[i] \in Digits
IsChar(s, i, set) == i <= Len(s) /\ s[i] \in set

ValueError == [ok |-> FALSE, year |-> 0, month |-> 0, day |-> 0]

\* calendar: days of a month, as datetime's constructor checks them
IsLeap(year) == year % 4 = 0 /\ (year % 100 # 0 \/ year % 400 = 0)
DaysInMonth(year, month) ==
    IF month = 2 THEN (IF IsLeap(year) THEN 29 ELSE 28)
    ELSE IF month \in {4, 6, 9, 11} THEN 30 ELSE 31

\* the directive %m as _strptime's regex 1[0-2]|0[1-9]|[1-9] matches it at
\* position i: <<number of characters, value>>, or <<0, 0>> for no match.
\* A "-" has to follow, so a two-character alternative never gives way to
\* the one-character one.
MatchMonth(s, i) ==
    IF IsChar(s, i, {"1"}) /\ IsChar(s, i + 1, {"0", "1", "2"})
    THEN <<2, 10 + DigitValue(s[i + 1])>>
    ELSE IF IsChar(s, i, {"0"}) /\ IsChar(s, i + 1, Digits \ {"0"})
    THEN <<2, DigitValue(s[i + 1])>>
    ELSE IF IsChar(s, i, Digits \ {"0"})
    THEN <<1, DigitValue(s[i])>>
    ELSE <<0, 0>>

\* the directive %d: 3[0-1]|[1-2]\d|0[1-9]|[1-9]| [1-9], first alternative
\* that matches
MatchDay(s, i) ==
    IF IsChar(s, i, {"3"}) /\ IsChar(s, i + 1, {"0", "1"})
    THEN <<2, 30 + DigitValue(s[i + 1])>>
    ELSE IF IsChar(s, i, {"1", "2"}) /\ IsDigit(s, i + 1)
    THEN <<2, 10 * DigitValue(s[i]) + DigitValue(s[i + 1])>>
    ELSE IF IsChar(s, i, {"0"}) /\ IsChar(s, i + 1, Digits \ {"0"})
    THEN <<2, DigitValue(s[i + 1])>>
    ELSE IF IsChar(s, i, Digits \ {"0"})
    THEN <<1, DigitValue(s[i])>>
    ELSE IF IsChar(s, i, {" "}) /\ IsChar(s, i + 1, Digits \ {"0"})
    THEN <<2, DigitValue(s[i + 1])>>
    ELSE <<0, 0>>

\* the parsed date, or ValueError: the string does not match the format,
\* unconverted data remains, or the date is not one of the calendar
strptime(s) ==
    IF ~(IsDigit(s, 1) /\ IsDigit(s, 2) /\ IsDigit(s, 3) /\ IsDigit(s, 4)
         /\ IsChar(s, 5, {"-"}))
    THEN ValueError
    ELSE LET year == 1000 * DigitValue(s[1]) + 100 * DigitValue(s[2])
                        + 10 * DigitValue(s[3]) + DigitValue(s[4])
             m == MatchMonth(s, 6)
             d == MatchDay(s, 6 + m[1] + 1)
         IN IF m[1] = 0 \/ ~IsChar(s, 6 + m[1], {"-"}) \/ d[1] = 0
            THEN ValueError
            ELSE IF 6 + m[1] + d[1] # Len(s)
            THEN ValueError
            ELSE IF year < 1 \/ d[2] > DaysInMonth(year, m[2])
            THEN ValueError
            ELSE [ok |-> TRUE, year |-> year, month |-> m[2], day |-> d[2]]

(***************************************************************************)
(* create-project                                                          *)
(***************************************************************************)
\* an optional list in a request body: None, or the list
NoList == <<>>

create_project(project_name, description, tasks, deadline_str, owner_id) ==
    /\ Serve("create-project",
             [projectName |-> project_name, description |-> description,
              tasks |-> tasks, deadline |-> deadline_str, ownerId |-> owner_id])
    /\ UNCHANGED <<identities, users, requests, notifs, messages, comments>>
    /\ IF ~(Truthy(project_name) /\ Truthy(description) /\ Truthy(owner_id)
            /\ TruthyChars(deadline_str))
       THEN /\ Error(400, "Project name, description, deadline, and ownerId are required")
            /\ UNCHANGED <<projects, autoId>>
       ELSE LET deadline_date == strptime(deadline_str)
            IN IF ~deadline_date.ok
               THEN /\ Error(400, "Deadline must be in YYYY-MM-DD format")
                    /\ UNCHANGED <<projects, autoId>>
               ELSE /\ projects' = projects @@ (NextId("projects") :>
                           [projectName |-> project_name,
                            description |-> description,
                            tasks |-> IF tasks = NoList THEN <<>> ELSE tasks[1],
                            deadline |-> deadline_date,
                            ownerId |-> owner_id,
                            team |-> <<>>, teamIds |-> <<>>,
                            status |-> NONE])
                    /\ autoId' = TakeId("projects")
                    /\ Respond(201, [message |-> "Project created successfully!",
                                     projectId |-> NextId("projects")])

(***************************************************************************)
(* Project notifications                                                   *)
(***************************************************************************)
\* the orders in which a loop over a Python set may visit its members
Orderings(S) ==
    {q \in [1..Cardinality(S) -> S] : {q[i] : i \in DOMAIN q} = S}

\* notifications after one document of the given type is written to each
\* recipient, in the order given
FanOut(order, type, project_id) ==
    [u \in Uids |-> notifs[u] \cup
        {[Notification(autoId.notifications + i, type)
             EXCEPT !.projectId = project_id] :
           i \in {j \in DOMAIN order : order[j] = u}}]

\* a write that reaches every user
NotifyOne_All(ns, uid, notif) == [u \in DOMAIN ns |-> ns[u] \cup {notif}]

\* notifications after one document is written to one user
NotifyOne(ns, uid, notif) == [ns EXCEPT ![uid] = @ \cup {notif}]

(***************************************************************************)
(* invite-to-project                                                       *)
(***************************************************************************)
invite_to_project(projectId, projectName, deadline, ownerId, invitedUserId) ==
    /\ Serve("invite-to-project",
             [projectId |-> projectId, projectName |-> projectName,
              deadline |-> deadline, ownerId |-> ownerId,
              invitedUserId |-> invitedUserId])
    /\ UNCHANGED <<identities, users, requests, projects, messages, comments>>
    /\ IF ~(projectId # NoId /\ Truthy(projectName) /\ TruthyChars(deadline)
            /\ Truthy(ownerId) /\ Truthy(invitedUserId))
       THEN /\ Error(400, "Missing fields")
            /\ UNCHANGED <<notifs, autoId>>
       ELSE /\ notifs' = NotifyOne(notifs, invitedUserId,
                   [Notification(NextId("notifications"), "project-invitation")
                       EXCEPT !.projectId = projectId, !.ownerId = ownerId])
            /\ autoId' = TakeId("notifications")
            /\ Respond(200, [message |-> "Project invitation sent",
                             invitationId |-> NextId("notifications")])

(***************************************************************************)
(* respond-project-invitation                                              *)
(***************************************************************************)
\* new_member: the summary of the accepting user
new_member(userId) ==
    IF userId \in DOMAIN users
    THEN [uid |-> userId, firstName |-> users[userId].firstName,
          surname |-> users[userId].surname]
    ELSE [uid |-> userId, firstName |-> NONE, surname |-> NONE]

\* firestore.ArrayUnion([element]) applied to an array field: the element is
\* added unless an equal element is in the array
ArrayUnion(array, element) ==
    IF \E i \in 1..Len(array) : array[i] = element
    THEN array ELSE Append(array, element)

\* an update that writes teamIds and leaves team as it was
JoinTeam_IdsOnly(project, userId) ==
    [project EXCEPT !.teamIds = ArrayUnion(@, userId)]

\* project_ref.update({"team": ArrayUnion(...), "teamIds": ArrayUnion(...)})
JoinTeam(project, userId) ==
    [project EXCEPT !.team = ArrayUnion(@, new_member(userId)),
                    !.teamIds = ArrayUnion(@, userId)]

respond_project_invitation(invitationId, action, userId) ==
    /\ Serve("respond-project-invitation",
             [invitationId |-> invitationId, action |-> action,
              userId |-> userId])
    /\ UNCHANGED <<identities, users, requests, messages, comments>>
    /\ IF ~(invitationId # NoId /\ Truthy(action) /\ Truthy(userId))
       THEN /\ Error(400, "Missing fields")
            /\ UNCHANGED <<notifs, projects, autoId>>
       ELSE IF action \notin {"accepted", "declined"}
       THEN /\ Error(400, "Invalid action")
            /\ UNCHANGED <<notifs, projects, autoId>>
       ELSE IF ~\E n \in notifs[userId] : n.id = invitationId
       THEN /\ Error(404, "Invitation not found")
            /\ UNCHANGED <<notifs, projects, autoId>>
       ELSE LET notif_data == CHOOSE n \in notifs[userId] : n.id = invitationId
                projectId == notif_data.projectId
                ownerId == notif_data.ownerId
                \* notif_ref.delete()
                notifs1 == [notifs EXCEPT ![userId] = @ \ {notif_data}]
                owner_notif_data ==
                    Notification(NextId("notifications"),
                                 "project-invitation-response")
            IN IF action = "accepted" /\ projectId \notin DOMAIN projects
               THEN \* update() of a missing project document raises NotFound
                    /\ notifs' = notifs1
                    /\ Error(500, "NotFound")
                    /\ UNCHANGED <<projects, autoId>>
               ELSE /\ projects' = IF action = "accepted"
                                   THEN [projects EXCEPT ![projectId] =
                                            JoinTeam(@, userId)]
                                   ELSE projects
                    /\ IF ownerId = NONE
                       THEN \* notif_data.get("ownerId", "") names no document
                            /\ notifs' = notifs1
                            /\ Error(500, "InvalidArgument")
                            /\ UNCHANGED autoId
                       ELSE /\ notifs' = NotifyOne(notifs1, ownerId,
                                                   owner_notif_data)
                            /\ autoId' = TakeId("notifications")
                            /\ Message(200, action)

(***************************************************************************)
(* leave-project, remove-collaborator                                      *)
(***************************************************************************)
\* [member for member in team if member.get("uid") != uid]
TeamWithout(team, uid) == SelectSeq(team, LAMBDA member : member.uid # uid)
\* [uid for uid in teamIds if uid != user_id]
TeamIdsWithout(teamIds, user_id) == SelectSeq(teamIds, LAMBDA uid : uid # user_id)
Range(q) == {q[i] : i \in DOMAIN q}

leave_project(project_id, user_id) ==
    /\ Serve("leave-project", [projectId |-> project_id, userId |-> user_id])
    /\ UNCHANGED <<identities, users, requests, messages, comments>>
    /\ IF project_id = NoId \/ ~Truthy(user_id)
       THEN /\ Error(400, "Project ID and userId are required")
            /\ UNCHANGED <<notifs, projects, autoId>>
       ELSE IF project_id \notin DOMAIN projects
       THEN /\ Error(404, "Project not found")
            /\ UNCHANGED <<notifs, projects, autoId>>
       ELSE IF user_id = projects[project_id].ownerId
       THEN /\ Error(403, "Project owner cannot leave the project")
            /\ UNCHANGED <<notifs, projects, autoId>>
       ELSE LET project_data == projects[project_id]
                new_team == TeamWithout(project_data.team, user_id)
                new_team_ids == TeamIdsWithout(project_data.teamIds, user_id)
                remaining_members == {project_data.ownerId} \cup Range(new_team_ids)
            IN /\ projects' = [projects EXCEPT
                                  ![project_id].team = new_team,
                                  ![project_id].teamIds = new_team_ids]
               /\ \E order \in Orderings(remaining_members) :
                      notifs' = FanOut(order, "project-leave", project_id)
               /\ autoId' = [autoId EXCEPT !.notifications =
                                @ + Cardinality(remaining_members)]
               /\ Message(200, "Left project successfully")

remove_collaborator(project_id, collaborator_id, owner_id) ==
    /\ Serve("remove-collaborator",
             [projectId |-> project_id, collaboratorId |-> collaborator_id,
              ownerId |-> owner_id])
    /\ UNCHANGED <<identities, users, requests, messages, comments>>
    /\ IF ~(project_id # NoId /\ Truthy(collaborator_id) /\ Truthy(owner_id))
       THEN /\ Error(400, "projectId, collaboratorId, and ownerId are required")
            /\ UNCHANGED <<notifs, projects, autoId>>
       ELSE IF project_id \notin DOMAIN projects
       THEN /\ Error(404, "Project not found")
            /\ UNCHANGED <<notifs, projects, autoId>>
       ELSE LET project_data == projects[project_id]
            IN /\ projects' = [projects EXCEPT
                     ![project_id].team =
                         TeamWithout(project_data.team, collaborator_id),
                     ![project_id].teamIds =
                         TeamIdsWithout(project_data.teamIds, collaborator_id)]
               /\ notifs' = NotifyOne(notifs, collaborator_id,
                     Notification(NextId("notifications"), "project-removal"))
               /\ autoId' = TakeId("notifications")
               /\ Message(200, "Collaborator removed successfully")

(***************************************************************************)
(* update-project, delete-project                                          *)
(***************************************************************************)
\* a discard that leaves the set as it was
Discard_Keep(recipients, uid) == recipients

\* recipients.discard(uid); if uid in recipient_ids: recipient_ids.remove(uid)
Discard(recipients, uid) == recipients \ {uid}

update_project(project_id, project_name, description, tasks, deadline_str, status, requester_id) ==
    /\ Serve("update-project",
             [projectId |-> project_id, projectName |-> project_name,
              description |-> description, tasks |-> tasks,
              deadline |-> deadline_str, status |-> status,
              requesterId |-> requester_id])
    /\ UNCHANGED <<identities, users, requests, messages, comments>>
    /\ IF project_id = NoId
       THEN /\ Error(400, "Project ID is required")
            /\ UNCHANGED <<notifs, projects, autoId>>
       ELSE IF project_id \notin DOMAIN projects
       THEN /\ Error(404, "Project not found")
            /\ UNCHANGED <<notifs, projects, autoId>>
       ELSE IF TruthyChars(deadline_str) /\ ~strptime(deadline_str).ok
       THEN /\ Error(400, "Deadline must be in YYYY-MM-DD format")
            /\ UNCHANGED <<notifs, projects, autoId>>
       ELSE IF ~(Truthy(project_name) \/ Truthy(description) \/ tasks # NoList
                 \/ TruthyChars(deadline_str) \/ Truthy(status))
       THEN /\ Message(200, "Nothing to update")
            /\ UNCHANGED <<notifs, projects, autoId>>
       ELSE LET updated_project_data ==
                    [projects[project_id] EXCEPT
                       !.projectName = IF Truthy(project_name)
                                       THEN project_name ELSE @,
                       !.description = IF Truthy(description)
                                       THEN description ELSE @,
                       !.tasks = IF tasks # NoList THEN tasks[1] ELSE @,
                       !.deadline = IF TruthyChars(deadline_str)
                                    THEN strptime(deadline_str) ELSE @,
                       !.status = IF Truthy(status) THEN status ELSE @]
                owner_id == updated_project_data.ownerId
                recipients ==
                    IF Truthy(status) /\ Truthy(requester_id)
                    THEN Discard(Range(updated_project_data.teamIds)
                                    \cup (IF owner_id # requester_id
                                          THEN {owner_id} ELSE {}),
                                 requester_id)
                    ELSE {}
            IN /\ projects' = [projects EXCEPT ![project_id] =
                                  updated_project_data]
               /\ \E order \in Orderings(recipients) :
                      notifs' = FanOut(order, "status-update", project_id)
               /\ autoId' = [autoId EXCEPT !.notifications =
                                @ + Cardinality(recipients)]
               /\ Message(200, "Project updated successfully")

\* a deletion that takes the comments of the project and the notifications
\* that carry its id along
delete_project_Cascading(project_id, requester_id) ==
    /\ Serve("delete-project",
             [projectId |-> project_id, requesterId |-> requester_id])
    /\ UNCHANGED <<identities, users, requests, messages, autoId>>
    /\ projects' = [p \in DOMAIN projects \ {project_id} |-> projects[p]]
    /\ comments' = [p \in DOMAIN comments \ {project_id} |-> comments[p]]
    /\ notifs' = [u \in Uids |-> {n \in notifs[u] : n.projectId # project_id}]
    /\ Message(200, "Project deleted successfully")

delete_project(project_id, requester_id) ==
    /\ Serve("delete-project",
             [projectId |-> project_id, requesterId |-> requester_id])
    /\ UNCHANGED <<identities, users, requests, notifs, messages, comments, autoId>>
    /\ IF project_id = NoId \/ ~Truthy(requester_id)
       THEN /\ Error(400, "Project ID and requesterId are required")
            /\ UNCHANGED projects
       ELSE IF project_id \notin DOMAIN projects
       THEN /\ Error(404, "Project not found")
            /\ UNCHANGED projects
       ELSE IF requester_id # projects[project_id].ownerId
       THEN /\ Error(403, "Not authorized to delete this project")
            /\ UNCHANGED projects
       ELSE /\ projects' = [p \in DOMAIN projects \ {project_id} |-> projects[p]]
            /\ Message(200, "Project deleted successfully")

(***************************************************************************)
(* add-comment, delete-comment                                             *)
(***************************************************************************)
\* the comments subcollection of a project
CommentsOf(store, project_id) ==
    IF project_id \in DOMAIN store THEN store[project_id] ELSE {}

add_comment(project_id, user_id, comment_text) ==
    /\ Serve("add-comment",
             [projectId |-> project_id, userId |-> user_id,
              commentText |-> comment_text])
    /\ UNCHANGED <<identities, users, requests, projects, messages>>
    /\ IF ~(project_id # NoId /\ Truthy(user_id) /\ Truthy(comment_text))
       THEN /\ Error(400, "projectId, userId, and commentText are required")
            /\ UNCHANGED <<notifs, comments, autoId>>
       ELSE IF project_id \notin DOMAIN projects
       THEN /\ Error(404, "Project not found")
            /\ UNCHANGED <<notifs, comments, autoId>>
       ELSE LET project_data == projects[project_id]
                comment_data == [id |-> NextId("comments"), userId |-> user_id,
                                 commentText |-> comment_text]
                owner_id == project_data.ownerId
                recipient_ids ==
                    Discard((IF Truthy(owner_id) THEN {owner_id} ELSE {})
                               \cup Range(project_data.teamIds),
                            user_id)
            IN /\ comments' =
                     [p \in DOMAIN comments \cup {project_id} |->
                         IF p = project_id
                         THEN CommentsOf(comments, p) \cup {comment_data}
                         ELSE comments[p]]
               /\ \E order \in Orderings(recipient_ids) :
                      notifs' = FanOut(order, "comment", project_id)
               /\ autoId' = [autoId EXCEPT
                                !.comments = @ + 1,
                                !.notifications = @ + Cardinality(recipient_ids)]
               /\ Message(200, "Comment added and notifications sent")

\* an author check that lets anyone pass
IsAuthor_Anyone(comment_data, user_id) == TRUE

\* comment_data.get("userId") == user_id
IsAuthor(comment_data, user_id) == comment_data.userId = user_id

delete_comment(project_id, comment_id, user_id) ==
    /\ Serve("delete-comment",
             [projectId |-> project_id, commentId |-> comment_id,
              userId |-> user_id])
    /\ UNCHANGED <<identities, users, requests, notifs, projects, messages,
                   autoId>>
    /\ IF ~(project_id # NoId /\ comment_id # NoId /\ Truthy(user_id))
       THEN /\ Error(400, "projectId, commentId, and userId are required")
            /\ UNCHANGED comments
       ELSE IF ~\E c \in CommentsOf(comments, project_id) : c.id = comment_id
       THEN /\ Error(404, "Comment not found")
            /\ UNCHANGED comments
       ELSE LET comment_data == CHOOSE c \in CommentsOf(comments, project_id) :
                                    c.id = comment_id
            IN IF ~IsAuthor(comment_data, user_id)
               THEN /\ Error(403, "Not authorized to delete this comment")
                    /\ UNCHANGED comments
               ELSE /\ comments' = [comments EXCEPT ![project_id] =
                                       @ \ {comment_data}]
                    /\ Message(200, "Comment deleted successfully")

(***************************************************************************)
(* The project service.                                                    *)
(***************************************************************************)
\* deadline strings of request bodies
Deadline20240615 == <<"2", "0", "2", "4", "-", "0", "6", "-", "1", "5">>
Deadline2024135 == <<"2", "0", "2", "4", "-", "1", "-", "5">>
Deadline20241340 == <<"2", "0", "2", "4", "-", "1", "3", "-", "4", "0">>
Deadline20230229 == <<"2", "0", "2", "3", "-", "0", "2", "-", "2", "9">>
DeadlineSlashes == <<"1", "5", "/", "0", "6", "/", "2", "0", "2", "4">>
DeadlineInputs ==
    {Deadline20240615, Deadline2024135, Deadline20241340, Deadline20230229,
     DeadlineSlashes, NoChars}

\* projects and their deadlines
NextDeadline ==
    \/ \E deadline_str \in DeadlineInputs, owner_id \in {"u1", NONE} :
           /\ create_project("P", "D", NoList, deadline_str, owner_id)
           /\ Within(MaxNotifs)
    \/ \E project_id \in 0..MaxProjects,
          deadline_str \in {Deadline20240615, Deadline20241340, NoChars},
          status \in {"Complete", NONE} :
           update_project(project_id, NONE, NONE, NoList, deadline_str, status,
                          NONE)
    \/ \E project_id \in 0..MaxProjects, requester_id \in {"u1", "u2"} :
           delete_project(project_id, requester_id)

SpecDeadline == Init /\ [][NextDeadline]_vars

\* respond-project-invitation bodies of user u2: [invitationId, action]
InvitationInputs(maxNotifs) ==
    ((1..maxNotifs) \X {"accepted", "declined"})
        \cup {<<NoId, "accepted">>, <<1, "later">>}

ProjectService(maxNotifs) ==
    \/ create_user("Ann", "Lee", "", "ann@x.com", ValidPassword)
    \/ \E owner_id \in {"u1", NONE} :
           /\ create_project("P", "D", NoList, Deadline20240615, owner_id)
           /\ Within(maxNotifs)
    \/ \E project_id \in 0..MaxProjects :
           /\ invite_to_project(project_id, "P", Deadline20240615, "u1", "u2")
           /\ Within(maxNotifs)
    \/ \E i \in InvitationInputs(maxNotifs) :
           /\ respond_project_invitation(i[1], i[2], "u2")
           /\ Within(maxNotifs)
    \/ \E user_id \in {"u1", "u2"} :
           leave_project(1, user_id) /\ Within(maxNotifs)
    \/ remove_collaborator(1, "u2", "u1") /\ Within(maxNotifs)
    \/ /\ update_project(1, NONE, NONE, NoList, NoChars, "Complete", "u1")
       /\ Within(maxNotifs)
    \/ delete_project(1, "u1")

NextProj == ProjectService(MaxNotifs)
SpecProj == Init /\ [][NextProj]_vars

\* the same service with room for a second invitation to be answered
NextTeam ==
    \/ ProjectService(MaxTeamNotifs)
    \/ update_user("u2", NONE, NoChars, "Bob", NONE)
SpecTeam == Init /\ [][NextTeam]_vars

(***************************************************************************)
(* Work on a project with a team.  The project is one that create-project, *)
(* invitations and their acceptance leave behind, the notifications of     *)
(* its making dismissed: owner u1, any members in any order of joining,    *)
(* the owner possibly among them (an owner may be invited and accept).     *)
(***************************************************************************)
\* the member summary of a user without a user document
MemberOf(uid) == [uid |-> uid, firstName |-> NONE, surname |-> NONE]

TeamProject(owner_id, teamIds) ==
    [projectName |-> "P", description |-> "D", tasks |-> <<>>,
     deadline |-> strptime(Deadline20240615), ownerId |-> owner_id,
     team |-> [i \in DOMAIN teamIds |-> MemberOf(teamIds[i])],
     teamIds |-> teamIds, status |-> NONE]

InitTeamwork ==
    /\ identities = {}
    /\ users = <<>>
    /\ requests = <<>>
    /\ notifs = [u \in Uids |-> {}]
    /\ \E members \in SUBSET Uids : \E teamIds \in Orderings(members) :
          projects = (1 :> TeamProject("u1", teamIds))
    /\ messages = <<>>
    /\ comments = <<>>
    /\ autoId = [connectionRequests |-> 0, notifications |-> 0, projects |-> 1,
                 comments |-> 0]
    /\ request = [route |-> "none"]
    /\ response = [code |-> 0, body |-> [message |-> "none"]]
    /\ before = Store
    /\ cancelling = Idle
    /\ running = [t \in Threads |-> NotRunning]

NextTeamwork ==
    \/ \E user_id \in Uids :
           add_comment(1, user_id, "hi") /\ Within(MaxNotifs)
    \/ \E project_id \in {NoId, 2} :
           add_comment(project_id, "u2", "hi") /\ Within(MaxNotifs)
    \/ \E c \in {<<1, "u1">>, <<1, "u2">>, <<2, "u2">>, <<1, NONE>>} :
           delete_comment(1, c[1], c[2])
    \/ \E requester_id \in Uids :
           /\ update_project(1, NONE, NONE, NoList, NoChars, "Complete",
                             requester_id)
           /\ Within(MaxNotifs)
    \/ \E user_id \in Uids : leave_project(1, user_id) /\ Within(MaxNotifs)
    \/ \E owner_id \in {"u1", "u10"} :
           remove_collaborator(1, "u2", owner_id) /\ Within(MaxNotifs)
    \/ \E requester_id \in {"u1", "u2"} : delete_project(1, requester_id)

SpecTeamwork == InitTeamwork /\ [][NextTeamwork]_vars

\* the team of project 1 with comments, removals, invitations and the
\* answers of u2 to its notifications
NextJoin ==
    \/ \E user_id \in {"u1", "u2"} :
           add_comment(1, user_id, "hi") /\ Within(MaxNotifs)
    \/ remove_collaborator(1, "u2", "u1") /\ Within(MaxNotifs)
    \/ invite_to_project(1, "P", Deadline20240615, "u1", "u2")
          /\ Within(MaxNotifs)
    \/ \E invitationId \in 1..MaxNotifs : \E action \in {"accepted", "declined"} :
           /\ respond_project_invitation(invitationId, action, "u2")
           /\ Within(MaxNotifs)

SpecJoin == InitTeamwork /\ [][NextJoin]_vars

(***************************************************************************)
(* The flows that notify one user: connection requests and project         *)
(* invitations, and the answers to them.                                   *)
(***************************************************************************)
NextNotify ==
    \/ \E to_user \in {"u2", "u1"} :
           send_connection_request("u1", to_user) /\ Within(MaxNotifs)
    \/ \E request_id \in 1..MaxRequests, action \in {"accepted", "rejected"} :
           respond_connection_request(request_id, action) /\ Within(MaxNotifs)
    \/ create_project("P", "D", NoList, Deadline20240615, "u1")
          /\ Within(MaxNotifs)
    \/ \E invitedUserId \in {"u2", "u10"} :
           /\ invite_to_project(1, "P", Deadline20240615, "u1", invitedUserId)
           /\ Within(MaxNotifs)
    \/ \E invitationId \in 1..MaxNotifs, action \in {"accepted", "declined"} :
           /\ respond_project_invitation(invitationId, action, "u2")
           /\ Within(MaxNotifs)
    \/ add_comment(1, "u2", "hi") /\ Within(MaxNotifs)
    \/ delete_project(1, "u1")

SpecNotify == Init /\ [][NextNotify]_vars

(***************************************************************************)
(* Disconnect among three accounts.  The accounts and their connections    *)
(* are the ones create-user and accepted connection requests leave behind: *)
(* connections are mutual, and a list is in the order of the accepts.      *)
(***************************************************************************)
EmailOf(uid) ==
    CASE uid = "u1" -> "ann@x.com"
      [] uid = "u2" -> "bob@x.com"
      [] uid = "u10" -> "cat@x.com"

\* the identity and the user document create-user writes for uid
IdentityOf(uid) ==
    [uid |-> uid, email |-> EmailOf(uid), password |-> ValidPassword]
AccountOf(uid) ==
    [firstName |-> "Ann", surname |-> "Lee", telephone |-> "",
     email |-> EmailOf(uid), uid |-> uid, connections |-> <<>>,
     password_hash |-> hashpw(ValidPassword)]

\* the unordered pairs of accounts that may be connected
Links(present) == {l \in SUBSET present : Cardinality(l) = 2}

\* the connections list of uid that holds the given uids in the given order
ConnectionsOf(order) ==
    [i \in DOMAIN order |-> connection_info(order[i], AccountOf(order[i]))]

InitConnected ==
    /\ \E present \in SUBSET Uids :
       \E links \in SUBSET Links(present) :
       \E order \in [present -> UNION {Orderings(T) : T \in SUBSET present}] :
          /\ \A u \in present :
                Range(order[u]) = {v \in present : {u, v} \in links}
          /\ identities = {IdentityOf(u) : u \in present}
          /\ users = [u \in present |->
                         [AccountOf(u) EXCEPT
                             !.connections = ConnectionsOf(order[u])]]
    /\ requests = <<>>
    /\ notifs = [u \in Uids |-> {}]
    /\ projects = <<>>
    /\ messages = <<>>
    /\ comments = <<>>
    /\ autoId = [connectionRequests |-> 0, notifications |-> 0, projects |-> 0,
                 comments |-> 0]
    /\ request = [route |-> "none"]
    /\ response = [code |-> 0, body |-> [message |-> "none"]]
    /\ before = Store
    /\ cancelling = Idle
    /\ running = [t \in Threads |-> NotRunning]

NextDisconnect ==
    \E user_id \in Uids \cup {NONE}, disconnect_user_id \in Uids \cup {NONE} :
        disconnect(user_id, disconnect_user_id)

SpecDisconnect == InitConnected /\ [][NextDisconnect]_vars

(***************************************************************************)
(* Handlers running side by side.  The server serves each request in a     *)
(* thread of its own, so between two storage calls of one handler the      *)
(* storage calls of another can run.  A thread's entry in `running` holds  *)
(* the statement it has reached and its local variables.                   *)
(***************************************************************************)
\* the thread can take a new request
Free(t) == running[t].pc \in {"idle", "returned"}

\* the thread is at statement pc of a handler
At(t, pc) == running[t].pc = pc

\* the thread moves to statement pc with local variables l
Goto(t, pc, l) == running' = [running EXCEPT ![t] = [pc |-> pc, l |-> l]]

\* the steps of a handler between its first and its last leave the request
\* history alone
Midway == UNCHANGED <<request, response, before>>

\* return jsonify(body), code from the handler the thread runs, which found
\* the store as `found`
Return(t, route, req_body, found, code, body) ==
    /\ request' = [route |-> route, body |-> req_body]
    /\ before' = found
    /\ response' = [code |-> code, body |-> body]
    /\ Goto(t, "returned", [route |-> route, body |-> req_body,
                             found |-> found, code |-> code])

\* the local variables of the handler the thread runs
Local(t) == running[t].l

\* the thread returns with the request it is serving
ReturnLocal(t, route, code, body) ==
    Return(t, route, Local(t).body, Local(t).found, code, body)

\* the process is killed while the thread is inside a handler; the thread
\* takes no further step
stop(t) ==
    /\ ~Free(t)
    /\ running' = [running EXCEPT ![t] =
                      [pc |-> "stopped", at |-> running[t].pc, l |-> Local(t)]]
    /\ UNCHANGED <<identities, users, requests, notifs, projects, messages,
                   comments, autoId, request, response, before, cancelling>>

(***************************************************************************)
(* respond-connection-request, statement by statement                      *)
(***************************************************************************)
\* lines 320-328: the body is validated and the request document is read
respond_get(t, request_id, action) ==
    /\ Free(t)
    /\ UNCHANGED <<identities, users, requests, notifs, projects, messages,
                   comments, autoId, cancelling>>
    /\ LET body == [requestId |-> request_id, action |-> action]
           route == "respond-connection-request"
       IN IF request_id = NoId \/ action \notin {"accepted", "rejected"}
          THEN Return(t, route, body, Store, 400, [error |->
                  "requestId and a valid action (accepted or rejected) are required"])
          ELSE IF request_id \notin DOMAIN requests
          THEN Return(t, route, body, Store, 404,
                      [error |-> "Connection request not found"])
          ELSE /\ Goto(t, "respond_update",
                       [body |-> body, found |-> Store,
                        request_id |-> request_id, action |-> action,
                        from_user |-> requests[request_id].fromUserId,
                        to_user |-> requests[request_id].toUserId])
               /\ Midway

\* line 332: req_doc_ref.update({"status": action}); update() of a document
\* that is gone raises NotFound
respond_update(t) ==
    /\ At(t, "respond_update")
    /\ UNCHANGED <<identities, users, notifs, projects, messages, comments,
                   autoId, cancelling>>
    /\ IF Local(t).request_id \in DOMAIN requests
       THEN /\ requests' = [requests EXCEPT
                               ![Local(t).request_id].status = Local(t).action]
            /\ Goto(t, "respond_unnotify", Local(t))
            /\ Midway
       ELSE /\ UNCHANGED requests
            /\ ReturnLocal(t, "respond-connection-request", 500,
                           [error |-> "NotFound"])

\* lines 333-336: the recipient's notifications of the request are deleted
respond_unnotify(t) ==
    /\ At(t, "respond_unnotify")
    /\ UNCHANGED <<identities, users, requests, projects, messages, comments,
                   autoId, cancelling>>
    /\ notifs' = [notifs EXCEPT ![Local(t).to_user] =
                     DeleteRequestNotifs(@, {Local(t).request_id})]
    /\ Goto(t, IF Local(t).action = "accepted"
               THEN "respond_read_from" ELSE "respond_notify", Local(t))
    /\ Midway

\* the fields a handler keeps of a user document it has read
Snapshot(uid) ==
    IF uid \in DOMAIN users
    THEN [exists |-> TRUE, data |-> users[uid]]
    ELSE [exists |-> FALSE]

\* line 339: from_doc = users_ref.document(from_user).get()
respond_read_from(t) ==
    /\ At(t, "respond_read_from")
    /\ UNCHANGED <<identities, users, requests, notifs, projects, messages,
                   comments, autoId, cancelling>>
    /\ Goto(t, "respond_read_to",
            [from_doc |-> Snapshot(Local(t).from_user)] @@ Local(t))
    /\ Midway

\* lines 340-341: to_doc = users_ref.document(to_user).get(), and the test
\* that both documents exist
respond_read_to(t) ==
    /\ At(t, "respond_read_to")
    /\ UNCHANGED <<identities, users, requests, notifs, projects, messages,
                   comments, autoId, cancelling>>
    /\ LET to_doc == Snapshot(Local(t).to_user)
       IN Goto(t, IF Local(t).from_doc.exists /\ to_doc.exists
                  THEN "respond_write_from" ELSE "respond_notify",
               [to_doc |-> to_doc] @@ Local(t))
    /\ Midway

\* a write of the new entry alone
Appended_Alone(read, uid, entry) == <<entry>>

\* from_connections.append(...) / to_connections.append(...): the list the
\* handler read, with the entry added
Appended(read, uid, entry) == Append(read, entry)

\* lines 358-362: the requester's list is appended to and written back whole
respond_write_from(t) ==
    /\ At(t, "respond_write_from")
    /\ UNCHANGED <<identities, requests, notifs, projects, messages, comments,
                   autoId, cancelling>>
    /\ LET from_user == Local(t).from_user
           to_user == Local(t).to_user
           from_connections == Local(t).from_doc.data.connections
           connection_info_for_from ==
               connection_info(to_user, Local(t).to_doc.data)
       IN users' = IF ~HasUid(from_connections, to_user)
                   THEN [users EXCEPT ![from_user].connections =
                            Appended(from_connections, from_user,
                                     connection_info_for_from)]
                   ELSE users
    /\ Goto(t, "respond_write_to", Local(t))
    /\ Midway

\* lines 359-365: the recipient's list is appended to and written back whole
respond_write_to(t) ==
    /\ At(t, "respond_write_to")
    /\ UNCHANGED <<identities, requests, notifs, projects, messages, comments,
                   autoId, cancelling>>
    /\ LET from_user == Local(t).from_user
           to_user == Local(t).to_user
           to_connections == Local(t).to_doc.data.connections
           connection_info_for_to ==
               connection_info(from_user, Local(t).from_doc.data)
       IN users' = IF ~HasUid(to_connections, from_user)
                   THEN [users EXCEPT ![to_user].connections =
                            Appended(to_connections, to_user,
                                     connection_info_for_to)]
                   ELSE users
    /\ Goto(t, "respond_notify", Local(t))
    /\ Midway

\* lines 366-384: the response notification is written to the requester and
\* the handler returns
respond_notify(t) ==
    /\ At(t, "respond_notify")
    /\ UNCHANGED <<identities, users, requests, projects, messages, comments,
                   cancelling>>
    /\ notifs' = [notifs EXCEPT ![Local(t).from_user] = @ \cup
                     {[Notification(NextId("notifications"), "response")
                          EXCEPT !.message = Local(t).action]}]
    /\ autoId' = TakeId("notifications")
    /\ ReturnLocal(t, "respond-connection-request", 200,
                   [message |-> Local(t).action])

(***************************************************************************)
(* disconnect, statement by statement                                      *)
(***************************************************************************)
\* lines 467-473: the body is validated and the caller's document is read
disconnect_read_user(t, user_id, disconnect_user_id) ==
    /\ Free(t)
    /\ UNCHANGED <<identities, users, requests, notifs, projects, messages,
                   comments, autoId, cancelling>>
    /\ LET body == [userId |-> user_id, disconnectUserId |-> disconnect_user_id]
       IN IF ~Truthy(user_id) \/ ~Truthy(disconnect_user_id)
          THEN Return(t, "disconnect", body, Store, 400,
                      [error |-> "userId and disconnectUserId are required"])
          ELSE /\ Goto(t, "disconnect_read_other",
                       [body |-> body, found |-> Store, user_id |-> user_id,
                        disconnect_user_id |-> disconnect_user_id,
                        user_doc |-> Snapshot(user_id)])
               /\ Midway

\* lines 474-476: the other party's document is read; both must exist
disconnect_read_other(t) ==
    /\ At(t, "disconnect_read_other")
    /\ UNCHANGED <<identities, users, requests, notifs, projects, messages,
                   comments, autoId, cancelling>>
    /\ LET disconnect_doc == Snapshot(Local(t).disconnect_user_id)
       IN IF ~Local(t).user_doc.exists \/ ~disconnect_doc.exists
          THEN ReturnLocal(t, "disconnect", 404,
                           [error |-> "One or both users not found"])
          ELSE /\ Goto(t, "disconnect_write_user",
                       [disconnect_doc |-> disconnect_doc] @@ Local(t))
               /\ Midway

\* lines 479-481: the caller's filtered list is written back
disconnect_write_user(t) ==
    /\ At(t, "disconnect_write_user")
    /\ UNCHANGED <<identities, requests, notifs, projects, messages, comments,
                   autoId, cancelling>>
    /\ users' = [users EXCEPT ![Local(t).user_id].connections =
                    WithoutUid(Local(t).user_doc.data.connections,
                               Local(t).disconnect_user_id)]
    /\ Goto(t, "disconnect_write_other", Local(t))
    /\ Midway

\* lines 482-485: the other party's filtered list is written back and the
\* handler returns
disconnect_write_other(t) ==
    /\ At(t, "disconnect_write_other")
    /\ UNCHANGED <<identities, requests, notifs, projects, messages, comments,
                   autoId, cancelling>>
    /\ users' = [users EXCEPT ![Local(t).disconnect_user_id].connections =
                    WithoutUid(Local(t).disconnect_doc.data.connections,
                               Local(t).user_id)]
    /\ ReturnLocal(t, "disconnect", 200,
                   [message |-> "Disconnected successfully"])

(***************************************************************************)
(* Accounts with connection requests waiting, and the threads that         *)
(* respond to them and disconnect side by side.                            *)
(***************************************************************************)
\* the pairs <<fromUserId, toUserId>> of the two requests that wait
RequestPairs ==
    {<<"u2", "u1">>, <<"u10", "u1">>, <<"u1", "u2">>, <<"u1", "u1">>}

\* the state after create-user for every uid and send-connection-request
\* for two pairs
InitRequested ==
    /\ identities = {IdentityOf(u) : u \in Uids}
    /\ users = [u \in Uids |-> AccountOf(u)]
    /\ \E p \in RequestPairs : \E q \in RequestPairs :
          /\ requests = <<[fromUserId |-> p[1], toUserId |-> p[2],
                           status |-> "pending"],
                          [fromUserId |-> q[1], toUserId |-> q[2],
                           status |-> "pending"]>>
          /\ notifs = [u \in Uids |->
                          {notification_data(i, i) : i \in
                              {j \in 1..2 : <<p, q>>[j][2] = u}}]
    /\ projects = <<>>
    /\ messages = <<>>
    /\ comments = <<>>
    /\ autoId = [connectionRequests |-> 2, notifications |-> 2, projects |-> 0,
                 comments |-> 0]
    /\ request = [route |-> "none"]
    /\ response = [code |-> 0, body |-> [message |-> "none"]]
    /\ before = Store
    /\ cancelling = Idle
    /\ running = [t \in Threads |-> NotRunning]

\* the response notifications the threads may write
MaxResponses == 2

WithinResponses == autoId'.notifications <= 2 + MaxResponses

\* two threads, each responding to one of the requests
NextAccepts ==
    \/ \E t \in Threads : \E request_id \in {1, 2} :
       \E action \in {"accepted", "rejected"} :
           At(t, "idle") /\ respond_get(t, request_id, action)
    \/ \E t \in Threads : respond_update(t)
    \/ \E t \in Threads : respond_unnotify(t)
    \/ \E t \in Threads : respond_read_from(t)
    \/ \E t \in Threads : respond_read_to(t)
    \/ \E t \in Threads : respond_write_from(t)
    \/ \E t \in Threads : respond_write_to(t)
    \/ \E t \in Threads : respond_notify(t) /\ WithinResponses

SpecAccepts == InitRequested /\ [][NextAccepts]_vars

\* thread 1 responds to one request after another while thread 2 serves one
\* respond-connection-request or one disconnect
NextPeers ==
    \/ \E request_id \in {1, 2} : respond_get(1, request_id, "accepted")
    \/ \E request_id \in {1, 2, 3} :
           At(2, "idle") /\ respond_get(2, request_id, "accepted")
    \/ \E t \in Threads : respond_update(t)
    \/ \E t \in Threads : respond_unnotify(t)
    \/ \E t \in Threads : respond_read_from(t)
    \/ \E t \in Threads : respond_read_to(t)
    \/ \E t \in Threads : respond_write_from(t)
    \/ \E t \in Threads : respond_write_to(t)
    \/ \E t \in Threads : respond_notify(t) /\ WithinResponses
    \/ \E p \in {<<"u1", "u2">>, <<"u2", "u1">>, <<"u1", "u1">>, <<"u1", NONE>>} :
           At(2, "idle") /\ disconnect_read_user(2, p[1], p[2])
    \/ disconnect_read_other(2)
    \/ disconnect_write_user(2)
    \/ disconnect_write_other(2)

\* u1 has asked u2, and either u2 has asked u1 or u1 has asked itself
InitMutual ==
    /\ InitRequested
    /\ requests[1].fromUserId = "u1" /\ requests[1].toUserId = "u2"
    /\ requests[2].toUserId = "u1" /\ requests[2].fromUserId # "u10"

SpecPeers == InitMutual /\ [][NextPeers]_vars

\* one thread serves respond-connection-request and disconnect requests, and
\* the process may be killed at any statement
NextStops ==
    \/ \E request_id \in {1, 2} : \E action \in {"accepted", "rejected"} :
           respond_get(1, request_id, action)
    \/ respond_update(1)
    \/ respond_unnotify(1)
    \/ respond_read_from(1)
    \/ respond_read_to(1)
    \/ respond_write_from(1)
    \/ respond_write_to(1)
    \/ respond_notify(1) /\ WithinResponses
    \/ \E p \in {<<"u1", "u2">>, <<"u2", "u1">>, <<"u1", "u10">>} :
           disconnect_read_user(1, p[1], p[2])
    \/ disconnect_read_other(1)
    \/ disconnect_write_user(1)
    \/ disconnect_write_other(1)
    \/ stop(1)

SpecStops == InitMutual /\ [][NextStops]_vars

(***************************************************************************)
(* send-connection-request, statement by statement, beside the handlers    *)
(* that cancel and resolve requests                                        *)
(***************************************************************************)
\* lines 242-253: the body is validated and the request document is written
send_request_set(t, from_user, to_user) ==
    /\ Free(t)
    /\ UNCHANGED <<identities, users, notifs, projects, messages, comments,
                   cancelling>>
    /\ LET body == [fromUserId |-> from_user, toUserId |-> to_user]
           rid == NextId("connectionRequests")
       IN IF ~Truthy(from_user) \/ ~Truthy(to_user)
          THEN /\ Return(t, "send-connection-request", body, Store, 400,
                      [error |-> "Both fromUserId and toUserId are required"])
               /\ UNCHANGED <<requests, autoId>>
          ELSE /\ requests' = requests @@ (rid :>
                      [fromUserId |-> from_user, toUserId |-> to_user,
                       status |-> "pending"])
               /\ autoId' = TakeId("connectionRequests")
               /\ Goto(t, "send_notify",
                       [body |-> body, found |-> Store, to_user |-> to_user,
                        rid |-> rid])
               /\ Midway

\* lines 254-273: the notification naming the request is written to the
\* recipient and the handler returns
send_notify(t) ==
    /\ At(t, "send_notify")
    /\ UNCHANGED <<identities, users, requests, projects, messages, comments,
                   cancelling>>
    /\ notifs' = [notifs EXCEPT ![Local(t).to_user] = @ \cup
                     {notification_data(NextId("notifications"), Local(t).rid)}]
    /\ autoId' = TakeId("notifications")
    /\ ReturnLocal(t, "send-connection-request", 200,
                   [message |-> "Connection request sent",
                    requestId |-> Local(t).rid])

\* thread 1 sends requests, thread 2 rejects them, and cancel runs beside both
NextOrphans ==
    \/ \E p \in {<<"u1", "u2">>, <<"u1", NONE>>} :
           send_request_set(1, p[1], p[2]) /\ Within(MaxNotifs)
    \/ send_notify(1) /\ Within(MaxNotifs)
    \/ cancel_query("u1", "u2")
    \/ cancel_delete
    \/ \E request_id \in 1..MaxRequests : respond_get(2, request_id, "rejected")
    \/ respond_update(2)
    \/ respond_unnotify(2)
    \/ respond_notify(2) /\ Within(MaxNotifs)

SpecOrphans == Init /\ [][NextOrphans]_vars

(***************************************************************************)
(* Chat.  A conversation id is built from two uid strings, so the model    *)
(* spells it out character by character.                                   *)
(***************************************************************************)
\* ord(c) of the characters uid strings and conversation ids are made of
ord(c) ==
    CASE c = "-" -> 45
      [] c = "0" -> 48
      [] c = "1" -> 49
      [] c = "2" -> 50
      [] c = "u" -> 117

\* Python's s < t on str: the first differing code point decides, a proper
\* prefix is smaller
StrLess(s, t) ==
    \E i \in 1..Len(t) :
        /\ \A j \in 1..(i - 1) : j <= Len(s) /\ s[j] = t[j]
        /\ \/ i = Len(s) + 1
           \/ i <= Len(s) /\ ord(s[i]) < ord(t[i])

\* what leaves a two-element list as the request gave it
sorted_Unsorted(a, b) == <<a, b>>

\* sorted([a, b])
sorted(a, b) == IF StrLess(b, a) THEN <<b, a>> ELSE <<a, b>>

\* '-'.join(parts) of a two-element list
join(parts) == parts[1] \o <<"-">> \o parts[2]

\* the messages subcollection of a conversation, ordered by timestamp
MessagesOf(store, conversationId) ==
    IF conversationId \in DOMAIN store THEN store[conversationId] ELSE <<>>

get_chat_messages(conversationId, userId, connectionId) ==
    /\ Serve("get-chat-messages",
             [conversationId |-> conversationId, userId |-> userId,
              connectionId |-> connectionId])
    /\ UNCHANGED <<identities, users, requests, notifs, projects, messages, comments,
                   autoId>>
    /\ IF ~TruthyChars(conversationId)
          /\ ~(Truthy(userId) /\ Truthy(connectionId))
       THEN Error(400, "Either conversationId or both userId and connectionId are required")
       ELSE LET conversationId1 ==
                    IF TruthyChars(conversationId) THEN conversationId
                    ELSE join(sorted(UidChars(userId), UidChars(connectionId)))
            IN Respond(200, [messages |-> MessagesOf(messages, conversationId1)])

send_chat_message(senderId, receiverId, messageText) ==
    /\ Serve("send-chat-message",
             [senderId |-> senderId, receiverId |-> receiverId,
              messageText |-> messageText])
    /\ UNCHANGED <<identities, users, requests, projects, comments>>
    /\ IF ~(Truthy(senderId) /\ Truthy(receiverId) /\ Truthy(messageText))
       THEN /\ Error(400, "senderId, receiverId, and messageText are required")
            /\ UNCHANGED <<notifs, messages, autoId>>
       ELSE LET conversationId ==
                    join(sorted(UidChars(senderId), UidChars(receiverId)))
                message_data == [senderId |-> senderId,
                                 messageText |-> messageText, read |-> FALSE]
            IN /\ messages' =
                     [c \in DOMAIN messages \cup {conversationId} |->
                         IF c = conversationId
                         THEN Append(MessagesOf(messages, c), message_data)
                         ELSE messages[c]]
               /\ notifs' = NotifyOne(notifs, receiverId,
                     [Notification(NextId("notifications"), "chat")
                         EXCEPT !.conversationId = conversationId])
               /\ autoId' = TakeId("notifications")
               /\ Message(200, "Message sent")

NextChat ==
    \/ \E senderId \in Uids : \E receiverId \in Uids \ {senderId} :
           send_chat_message(senderId, receiverId, "hi") /\ Within(MaxNotifs)
    \/ \E senderId \in {"u1", NONE}, messageText \in {"hi", NONE} :
           send_chat_message(senderId, "u2", messageText) /\ Within(MaxNotifs)
    \/ \E userId \in Uids \cup {NONE}, connectionId \in Uids \cup {NONE} :
           get_chat_messages(NoChars, userId, connectionId)
    \/ \E userId \in Uids, connectionId \in Uids :
           get_chat_messages(join(<<UidChars(userId), UidChars(connectionId)>>),
                             NONE, NONE)

SpecChat == Init /\ [][NextChat]_vars

(***************************************************************************)
(* Failing storage calls.  A call to Firestore may raise (the service is   *)
(* unavailable, a deadline is exceeded); what the client is answered       *)
(* depends on whether the handler wraps the call in try/except.            *)
(***************************************************************************)
\* a request during which the named storage call raises
ServeFault(route, body, call) ==
    /\ request' = [route |-> route, body |-> body, fault |-> call]
    /\ before' = Store
    /\ UNCHANGED <<cancelling, running>>

\* an exception leaves the view function: Flask answers 500 with its own
\* HTML page
Unhandled ==
    response' = [code |-> 500, body |-> [html |-> "Internal Server Error"]]

\* send_chat_message has no try/except; messages.add() or, after it,
\* notifications.set() raises
send_chat_message_fault(senderId, receiverId, messageText, call) ==
    /\ Truthy(senderId) /\ Truthy(receiverId) /\ Truthy(messageText)
    /\ ServeFault("send-chat-message",
                  [senderId |-> senderId, receiverId |-> receiverId,
                   messageText |-> messageText], call)
    /\ UNCHANGED <<identities, users, requests, notifs, projects, comments,
                   autoId>>
    /\ LET conversationId ==
               join(sorted(UidChars(senderId), UidChars(receiverId)))
           message_data == [senderId |-> senderId,
                            messageText |-> messageText, read |-> FALSE]
       IN messages' =
             IF call = "notifications.set"
             THEN [c \in DOMAIN messages \cup {conversationId} |->
                      IF c = conversationId
                      THEN Append(MessagesOf(messages, c), message_data)
                      ELSE messages[c]]
             ELSE messages
    /\ Unhandled

\* get_chat_messages has no try/except; the query raises
get_chat_messages_fault(userId, connectionId) ==
    /\ Truthy(userId) /\ Truthy(connectionId)
    /\ ServeFault("get-chat-messages",
                  [conversationId |-> NoChars, userId |-> userId,
                   connectionId |-> connectionId], "messages.stream")
    /\ UNCHANGED <<identities, users, requests, notifs, projects, messages,
                   comments, autoId>>
    /\ Unhandled

\* create_project wraps its body in try/except; project_ref.set() raises
create_project_fault(project_name, description, deadline_str, owner_id) ==
    /\ Truthy(project_name) /\ Truthy(description) /\ Truthy(owner_id)
    /\ TruthyChars(deadline_str) /\ strptime(deadline_str).ok
    /\ ServeFault("create-project",
                  [projectName |-> project_name, description |-> description,
                   tasks |-> NoList, deadline |-> deadline_str,
                   ownerId |-> owner_id], "projects.set")
    /\ UNCHANGED <<identities, users, requests, notifs, projects, messages,
                   comments, autoId>>
    /\ Error(500, "ServiceUnavailable")

\* the conversation send_chat_message files a message under
ReadBySender(senderId, receiverId) ==
    join(sorted(UidChars(senderId), UidChars(receiverId)))

NextFaults ==
    \/ \E senderId \in {"u1", "u2"} : \E receiverId \in {"u1", "u2"} :
           send_chat_message(senderId, receiverId, "hi") /\ Within(MaxNotifs)
    \/ \E userId \in Uids :
           get_chat_messages(NoChars, userId, "u1")
    \/ create_project("P", "D", NoList, Deadline20240615, "u1")
          /\ Within(MaxNotifs)
    \/ \E call \in {"messages.add", "notifications.set"} :
           /\ send_chat_message_fault("u1", "u2", "hi", call)
           /\ Len(MessagesOf(messages', ReadBySender("u1", "u2"))) <= MaxNotifs
    \/ \E userId \in Uids : get_chat_messages_fault(userId, "u1")
    \/ create_project_fault("P", "D", Deadline20240615, "u1")

SpecFaults == Init /\ [][NextFaults]_vars

\* add_comment when the notification write for the n-th recipient raises:
\* the comment and the notifications of the recipients before it are stored,
\* and the handler's except clause answers
add_comment_fault(project_id, user_id, comment_text, n) ==
    /\ project_id \in DOMAIN projects /\ Truthy(user_id) /\ Truthy(comment_text)
    /\ ServeFault("add-comment",
                  [projectId |-> project_id, userId |-> user_id,
                   commentText |-> comment_text], "notifications.set")
    /\ UNCHANGED <<identities, users, requests, projects, messages>>
    /\ LET project_data == projects[project_id]
           comment_data == [id |-> NextId("comments"), userId |-> user_id,
                            commentText |-> comment_text]
           owner_id == project_data.ownerId
           recipient_ids ==
               Discard((IF Truthy(owner_id) THEN {owner_id} ELSE {})
                          \cup Range(project_data.teamIds),
                       user_id)
       IN /\ n \in 1..Cardinality(recipient_ids)
          /\ comments' =
                [p \in DOMAIN comments \cup {project_id} |->
                    IF p = project_id
                    THEN CommentsOf(comments, p) \cup {comment_data}
                    ELSE comments[p]]
          /\ \E order \in Orderings(recipient_ids) :
                 notifs' = FanOut(SubSeq(order, 1, n - 1), "comment", project_id)
          /\ autoId' = [autoId EXCEPT !.comments = @ + 1,
                                      !.notifications = @ + n - 1]
          /\ Error(500, "ServiceUnavailable")

NextFanOutFaults ==
    \/ \E user_id \in Uids :
           add_comment(1, user_id, "hi") /\ Within(MaxTeamNotifs)
    \/ \E user_id \in Uids : \E n \in 1..2 :
           add_comment_fault(1, user_id, "hi", n) /\ Within(MaxTeamNotifs)

SpecFanOutFaults == InitTeamwork /\ [][NextFanOutFaults]_vars

(***************************************************************************)
(* mark-messages-read                                                      *)
(***************************************************************************)
\* messages_ref.where("receiverId", "==", recipient_id)
\*             .where("read", "==", False): an equality filter matches no
\* document that lacks the field
UnreadFor(msg, recipient_id) ==
    /\ "receiverId" \in DOMAIN msg
    /\ msg.receiverId = recipient_id
    /\ msg.read = FALSE

\* the messages of a conversation after the batch of {"read": True} updates
ReadMessages(msgs, recipient_id) ==
    [i \in DOMAIN msgs |->
        IF UnreadFor(msgs[i], recipient_id)
        THEN [msgs[i] EXCEPT !.read = TRUE] ELSE msgs[i]]

\* notifs_ref.where("type", "==", "chat")
\*           .where("conversationId", "==", conversation_id)
\*           .where("status", "==", "unread")
UnreadChat(notif, conversation_id) ==
    /\ notif.type = "chat"
    /\ notif.conversationId = conversation_id
    /\ notif.status = "unread"

\* a batch that marks every unread notification of the user
MarkRead_AnyType(ns, conversation_id) ==
    {[n EXCEPT !.status = "read"] : n \in ns}

\* a user's notifications after the batch of {"status": "read"} updates
MarkRead(ns, conversation_id) ==
    {IF UnreadChat(n, conversation_id) THEN [n EXCEPT !.status = "read"] ELSE n :
        n \in ns}

\* the store's messages after batch.commit()
CommitMessages(conversation_id, recipient_id) ==
    [c \in DOMAIN messages |->
        IF c = conversation_id
        THEN ReadMessages(messages[c], recipient_id) ELSE messages[c]]

\* msg_count
CountUnread(conversation_id, recipient_id) ==
    Cardinality({i \in DOMAIN MessagesOf(messages, conversation_id) :
                    UnreadFor(messages[conversation_id][i], recipient_id)})

\* the response body carries msg_count inside its message text; the model
\* keeps the number beside the text
mark_messages_read(conversation_id, recipient_id) ==
    /\ Serve("mark-messages-read",
             [conversationId |-> conversation_id, recipientId |-> recipient_id])
    /\ UNCHANGED <<identities, users, requests, projects, comments, autoId>>
    /\ IF ~TruthyChars(conversation_id) \/ ~Truthy(recipient_id)
       THEN /\ Error(400, "conversationId and recipientId are required")
            /\ UNCHANGED <<messages, notifs>>
       ELSE /\ messages' = CommitMessages(conversation_id, recipient_id)
            /\ notifs' = [notifs EXCEPT ![recipient_id] =
                             MarkRead(@, conversation_id)]
            /\ Respond(200, [message |-> "Marked messages as read",
                             msg_count |->
                                 CountUnread(conversation_id, recipient_id)])

\* notif_batch.commit() raises: the message batch is committed, no
\* notification update is applied
mark_messages_read_fault(conversation_id, recipient_id) ==
    /\ TruthyChars(conversation_id) /\ Truthy(recipient_id)
    /\ ServeFault("mark-messages-read",
                  [conversationId |-> conversation_id,
                   recipientId |-> recipient_id], "notif_batch.commit")
    /\ UNCHANGED <<identities, users, requests, notifs, projects, comments,
                   autoId>>
    /\ messages' = CommitMessages(conversation_id, recipient_id)
    /\ Error(500, "ServiceUnavailable")

\* conversation ids a client may send
ConversationIds ==
    {join(sorted(UidChars("u1"), UidChars("u2"))),
     join(sorted(UidChars("u2"), UidChars("u10"))), NoChars}

NextRead ==
    \/ \E p \in {<<"u1", "u2">>, <<"u2", "u1">>, <<"u10", "u2">>} :
           send_chat_message(p[1], p[2], "hi") /\ Within(MaxNotifs)
    \/ send_connection_request("u1", "u2") /\ Within(MaxNotifs)
    \/ \E conversation_id \in ConversationIds :
       \E recipient_id \in {"u1", "u2", NONE} :
           mark_messages_read(conversation_id, recipient_id)
    \/ \E conversation_id \in ConversationIds \ {NoChars} :
           mark_messages_read_fault(conversation_id, "u2")

SpecRead == Init /\ [][NextRead]_vars

(***************************************************************************)
(* Properties of the connections service.                                  *)
(***************************************************************************)
\* number of entries of a connections list that carry uid
CountUid(connections, uid) ==
    Cardinality({i \in 1..Len(connections) : connections[i].uid = uid})

Route(r) == request.route = r
Accepting ==
    /\ Route("respond-connection-request")
    /\ request.body.action = "accepted"
    /\ request.body.requestId \in DOMAIN before.requests
AcceptedFrom == before.requests[request.body.requestId].fromUserId
AcceptedTo == before.requests[request.body.requestId].toUserId
AcceptingExisting ==
    /\ Accepting
    /\ AcceptedFrom \in DOMAIN before.users
    /\ AcceptedTo \in DOMAIN before.users

\* C1: when a request from A to B, both user documents existing, is answered
\* with "accepted", the handler answers 200 and afterwards connections(A) has
\* an entry with uid B and connections(B) has an entry with uid A.
C1_AcceptSymmetric ==
    AcceptingExisting =>
        /\ response.code = 200
        /\ HasUid(users[AcceptedFrom].connections, AcceptedTo)
        /\ HasUid(users[AcceptedTo].connections, AcceptedFrom)

\* an accept of a request between two distinct existing users that were not
\* connected has completed
C1_Witness ==
    /\ AcceptingExisting
    /\ AcceptedFrom # AcceptedTo
    /\ ~HasUid(before.users[AcceptedFrom].connections, AcceptedTo)
    /\ ~HasUid(before.users[AcceptedTo].connections, AcceptedFrom)
    /\ response.code = 200

Disconnecting ==
    /\ Route("disconnect")
    /\ request.body.userId \in DOMAIN before.users
    /\ request.body.disconnectUserId \in DOMAIN before.users

\* C3: disconnect(A, B) on two existing users answers 200 whatever their
\* lists held, and afterwards connections(A) has no entry with uid B and
\* connections(B) none with uid A.
C3_DisconnectRemoves ==
    /\ Disconnecting =>
        /\ response.code = 200
        /\ ~HasUid(users[request.body.userId].connections,
                   request.body.disconnectUserId)
        /\ ~HasUid(users[request.body.disconnectUserId].connections,
                   request.body.userId)
    /\ (Route("disconnect") /\ response.code = 200) => Disconnecting

\* a disconnect of two connected users has completed
C3_Witness ==
    /\ Disconnecting
    /\ request.body.userId # request.body.disconnectUserId
    /\ HasUid(before.users[request.body.userId].connections,
              request.body.disconnectUserId)
    /\ HasUid(before.users[request.body.disconnectUserId].connections,
              request.body.userId)
    /\ response.code = 200

\* the pending requests from from_user to to_user the handler found
PendingBefore(from_user, to_user) ==
    {r \in DOMAIN before.requests :
        before.requests[r] = [fromUserId |-> from_user, toUserId |-> to_user,
                              status |-> "pending"]}
Cancelling ==
    /\ Route("cancel-connection-request")
    /\ Truthy(request.body.fromUserId)
    /\ Truthy(request.body.toUserId)
CancelledIds == DOMAIN before.requests \ DOMAIN requests

\* C7: cancel(A, B) answering 200 has deleted every pending request from A
\* to B, and B keeps no notification whose connectionRequestId names a
\* deleted request; with no pending request from A to B the answer is 404
\* and no request and no notification is deleted.
C7_CancelDeletesNotifs ==
    Cancelling =>
        LET pending == PendingBefore(request.body.fromUserId,
                                     request.body.toUserId)
        IN IF pending # {}
           THEN /\ response.code = 200
                /\ CancelledIds = pending
                /\ \A n \in notifs[request.body.toUserId] :
                       n.connectionRequestId \notin CancelledIds
           ELSE /\ response.code = 404
                /\ requests = before.requests
                /\ notifs = before.notifs

\* a cancel has deleted a pending request together with the notification
\* that announced it
C7_Witness ==
    /\ Cancelling
    /\ response.code = 200
    /\ \E n \in before.notifs[request.body.toUserId] :
           /\ n.connectionRequestId \in CancelledIds
           /\ n \notin notifs[request.body.toUserId]

\* C8: send-connection-request(u1, u2) answering 200 with a requestId leaves
\* a pending request under that id, and u2 holds exactly one notification
\* with that connectionRequestId, of type "request" and status "unread".
C8_SendCreatesNotif ==
    (Route("send-connection-request") /\ response.code = 200) =>
        LET rid == response.body.requestId
            to_user == request.body.toUserId
            refs == {n \in notifs[to_user] : n.connectionRequestId = rid}
        IN /\ rid \in DOMAIN requests
           /\ rid \notin DOMAIN before.requests
           /\ requests[rid] = [fromUserId |-> request.body.fromUserId,
                               toUserId |-> to_user, status |-> "pending"]
           /\ Cardinality(refs) = 1
           /\ \A n \in refs : n.type = "request" /\ n.status = "unread"

\* a request from u1 to u2 has been sent
C8_Witness ==
    /\ Route("send-connection-request")
    /\ response.code = 200
    /\ request.body.fromUserId = "u1"
    /\ request.body.toUserId = "u2"
    /\ \E n \in notifs["u2"] : n.connectionRequestId = response.body.requestId

(***************************************************************************)
(* Properties of the accounts service.                                     *)
(***************************************************************************)
CreatingValid ==
    /\ Route("create-user")
    /\ request.body.email # NONE
    /\ Truthy(request.body.firstName) /\ Truthy(request.body.surname)
    /\ TruthyChars(request.body.password)
    /\ password_pattern(request.body.password)
Registered(email) == \E i \in before.identities : i.email = email

\* C9: create-user with valid fields whose lower-cased e-mail is already
\* registered answers 400 "User already exists" and creates neither an
\* identity nor a user document; for an e-mail not yet registered it answers
\* 201 with the id of the identity and document it created.
C9_DuplicateEmailRejected ==
    CreatingValid =>
        IF Registered(Lower(request.body.email))
        THEN /\ response.code = 400
             /\ response.body.error = "User already exists"
             /\ identities = before.identities
             /\ users = before.users
        ELSE /\ response.code = 201
             /\ response.body.userId \notin DOMAIN before.users
             /\ response.body.userId \notin {i.uid : i \in before.identities}
             /\ DOMAIN users = DOMAIN before.users \cup {response.body.userId}
             /\ \E i \in identities \ before.identities :
                    /\ i.uid = response.body.userId
                    /\ i.email = Lower(request.body.email)

\* a second create-user for a registered address, spelled with a capital,
\* has been refused
C9_Witness ==
    /\ CreatingValid
    /\ request.body.email = "Ann@x.com"
    /\ Registered("ann@x.com")
    /\ response.code = 400
    /\ response.body.error = "User already exists"


(***************************************************************************)
(* Properties of the chat service.                                         *)
(***************************************************************************)
Sending ==
    /\ Route("send-chat-message")
    /\ Truthy(request.body.senderId) /\ Truthy(request.body.receiverId)
    /\ Truthy(request.body.messageText)
    /\ request.body.senderId # request.body.receiverId

\* a get-chat-messages request that names the two participants
Getting ==
    /\ Route("get-chat-messages")
    /\ ~TruthyChars(request.body.conversationId)
    /\ Truthy(request.body.userId) /\ Truthy(request.body.connectionId)
    /\ request.body.userId # request.body.connectionId

\* the conversation get-chat-messages(userId, connectionId) reads from
ReadBy(userId, connectionId) ==
    join(sorted(UidChars(userId), UidChars(connectionId)))

\* C4: a message sent by A to B is filed, as the newest one, in the
\* conversation that get-chat-messages reads for (userId B, connectionId A)
\* and in the one it reads for (userId A, connectionId B); and what
\* get-chat-messages returns for (U, V) is what is filed for (V, U).
C4_ConversationIdCommutative ==
    /\ Sending =>
          LET A == request.body.senderId
              B == request.body.receiverId
              sent == [senderId |-> A,
                       messageText |-> request.body.messageText,
                       read |-> FALSE]
          IN /\ response.code = 200
             /\ \A id \in {ReadBy(B, A), ReadBy(A, B)} :
                    MessagesOf(messages, id)
                        = Append(MessagesOf(before.messages, id), sent)
    /\ Getting =>
          /\ response.code = 200
          /\ response.body.messages
                = MessagesOf(messages, ReadBy(request.body.connectionId,
                                              request.body.userId))

\* u2 reads its conversation with u10, whose uid sorts first although it is
\* numerically larger, and is returned messages of both participants
C4_Witness ==
    /\ Getting
    /\ request.body.userId = "u2" /\ request.body.connectionId = "u10"
    /\ \E i, j \in 1..Len(response.body.messages) :
          /\ response.body.messages[i].senderId = "u2"
          /\ response.body.messages[j].senderId = "u10"

(***************************************************************************)
(* Properties of the projects service.                                     *)
(***************************************************************************)
\* an accepting respond-project-invitation request that names a notification
\* of the user, of a project that exists
AcceptingInvitation ==
    /\ Route("respond-project-invitation")
    /\ request.body.action = "accepted"
    /\ Truthy(request.body.userId)
    /\ \E n \in before.notifs[request.body.userId] :
          /\ n.id = request.body.invitationId
          /\ n.projectId \in DOMAIN before.projects

InvitedTo ==
    (CHOOSE n \in before.notifs[request.body.userId] :
        n.id = request.body.invitationId).projectId

\* C5: after user U has accepted an invitation to a project, the project's
\* team holds a member summary with uid U, its teamIds holds U, and U has no
\* notification with the invitation's id any more.
C5_AcceptJoinsTeam ==
    AcceptingInvitation =>
        LET U == request.body.userId
        IN /\ InvitedTo \in DOMAIN projects
           /\ \E i \in 1..Len(projects[InvitedTo].team) :
                  projects[InvitedTo].team[i].uid = U
           /\ \E i \in 1..Len(projects[InvitedTo].teamIds) :
                  projects[InvitedTo].teamIds[i] = U
           /\ ~\E n \in notifs[U] : n.id = request.body.invitationId

\* a user who was not on the team accepts and is answered 200
C5_Witness ==
    /\ AcceptingInvitation
    /\ response.code = 200
    /\ request.body.userId \notin Range(before.projects[InvitedTo].teamIds)
    /\ request.body.userId \in Range(projects[InvitedTo].teamIds)

\* the uid values read off a team, in order
TeamUids(team) == [i \in 1..Len(team) |-> team[i].uid]

\* C6: for every project, the uid values read off team, in order, are
\* teamIds: same members, one team entry per id.
C6_TeamLockstep ==
    \A project_id \in DOMAIN projects :
        TeamUids(projects[project_id].team) = projects[project_id].teamIds

\* a calendar date written as four digits, "-", two digits, "-", two digits
IsYyyyMmDd(s) ==
    /\ Len(s) = 10
    /\ \A i \in {1, 2, 3, 4, 6, 7, 9, 10} : s[i] \in Digits
    /\ s[5] = "-" /\ s[8] = "-"
    /\ LET year == 1000 * DigitValue(s[1]) + 100 * DigitValue(s[2])
                      + 10 * DigitValue(s[3]) + DigitValue(s[4])
           month == 10 * DigitValue(s[6]) + DigitValue(s[7])
           day == 10 * DigitValue(s[9]) + DigitValue(s[10])
       IN /\ year >= 1
          /\ month \in 1..12
          /\ day \in 1..DaysInMonth(year, month)

CreatingProject ==
    /\ Route("create-project")
    /\ Truthy(request.body.projectName) /\ Truthy(request.body.description)
    /\ Truthy(request.body.ownerId) /\ TruthyChars(request.body.deadline)

\* C10: create-project with the required fields present and a deadline that
\* is not a calendar date in YYYY-MM-DD format is answered 400 and leaves the
\* projects collection as it was.
C10_InvalidDeadlineRejected ==
    CreatingProject /\ ~IsYyyyMmDd(request.body.deadline) =>
        /\ response.code = 400
        /\ projects = before.projects


(***************************************************************************)
(* Frame of disconnect.                                                    *)
(***************************************************************************)
\* new is old without its entries for uid, the others in their order
KeepsOthers(old, new, uid) ==
    new = SelectSeq(old, LAMBDA conn : conn.uid # uid)

\* C11: disconnect(A, B) on two existing users answers 200; connections(A)
\* keeps, in order, exactly its entries whose uid is not B, connections(B)
\* those whose uid is not A; nothing else of the two documents and no other
\* user's document changes, so with no prior connection between A and B the
\* users collection is as it was.
C11_DisconnectFrame ==
    Disconnecting =>
        LET A == request.body.userId
            B == request.body.disconnectUserId
        IN /\ response.code = 200
           /\ DOMAIN users = DOMAIN before.users
           /\ KeepsOthers(before.users[A].connections, users[A].connections, B)
           /\ KeepsOthers(before.users[B].connections, users[B].connections, A)
           /\ \A u \in DOMAIN users :
                 [users[u] EXCEPT !.connections = <<>>]
                    = [before.users[u] EXCEPT !.connections = <<>>]
           /\ \A u \in DOMAIN users \ {A, B} : users[u] = before.users[u]
           /\ (~HasUid(before.users[A].connections, B)
               /\ ~HasUid(before.users[B].connections, A))
                 => users = before.users

\* two users without a connection between them, each connected to a third,
\* are disconnected from each other
C11_Witness ==
    /\ Disconnecting
    /\ request.body.userId = "u1" /\ request.body.disconnectUserId = "u2"
    /\ ~HasUid(before.users["u1"].connections, "u2")
    /\ HasUid(before.users["u1"].connections, "u10")
    /\ HasUid(before.users["u2"].connections, "u10")
    /\ response.code = 200
    /\ users = before.users

(***************************************************************************)
(* Properties of notification delivery.                                    *)
(***************************************************************************)
\* the notifications a user has that the handler did not find
NewNotifs(u) == notifs[u] \ before.notifs[u]

\* a fan-out flow has completed with 200: a comment, a status update that
\* names its requester, or a member leaving
FannedOut ==
    /\ response.code = 200
    /\ \/ Route("add-comment")
       \/ Route("leave-project")
       \/ /\ Route("update-project")
          /\ Truthy(request.body.status) /\ Truthy(request.body.requesterId)

Actor ==
    IF Route("update-project") THEN request.body.requesterId
    ELSE request.body.userId

ActionType ==
    CASE Route("add-comment") -> "comment"
      [] Route("leave-project") -> "project-leave"
      [] Route("update-project") -> "status-update"

\* the owner and the members of the project of the request, after the action
Audience ==
    {projects[request.body.projectId].ownerId}
        \cup Range(projects[request.body.projectId].teamIds)

\* C12: after a fan-out flow has completed with 200, the acting user has no
\* new notification, and every other user among the owner and the teamIds
\* of the project, as they stand after the action, has exactly one new
\* notification, of the action's type and for that project; nobody else has
\* a new one and none has been removed.
C12_ActorExcluded ==
    FannedOut =>
        /\ NewNotifs(Actor) = {}
        /\ \A u \in Uids : before.notifs[u] \subseteq notifs[u]
        /\ \A u \in Audience \ {Actor} :
              /\ Cardinality(NewNotifs(u)) = 1
              /\ \A n \in NewNotifs(u) :
                    /\ n.type = ActionType
                    /\ n.projectId = request.body.projectId
        /\ \A u \in Uids \ Audience : NewNotifs(u) = {}

\* a member comments on a project whose owner and another member are told
C12_Witness ==
    /\ FannedOut
    /\ Route("add-comment")
    /\ Actor \in Range(projects[request.body.projectId].teamIds)
    /\ Cardinality(Audience) = 3
    /\ \A u \in Audience \ {Actor} : Cardinality(NewNotifs(u)) = 1

\* a single-target flow has completed with 200
SingleTarget ==
    /\ response.code = 200
    /\ \/ Route("send-connection-request")
       \/ Route("respond-connection-request")
       \/ Route("invite-to-project")
       \/ Route("respond-project-invitation")

\* the user the flow is to notify
Target ==
    CASE Route("send-connection-request") -> request.body.toUserId
      [] Route("respond-connection-request") ->
            before.requests[request.body.requestId].fromUserId
      [] Route("invite-to-project") -> request.body.invitedUserId
      [] Route("respond-project-invitation") ->
            (CHOOSE n \in before.notifs[request.body.userId] :
                n.id = request.body.invitationId).ownerId

TargetType ==
    CASE Route("send-connection-request") -> "request"
      [] Route("respond-connection-request") -> "response"
      [] Route("invite-to-project") -> "project-invitation"
      [] Route("respond-project-invitation") -> "project-invitation-response"

\* C13: a connection request, the answer to one, a project invitation and
\* the answer to one, completed with 200, each leave exactly one new
\* notification, of the flow's type, with the flow's target (toUserId, the
\* request's fromUserId, invitedUserId, the invitation's ownerId), and no
\* new notification with anyone else.
C13_SingleTarget ==
    SingleTarget =>
        /\ Cardinality(NewNotifs(Target)) = 1
        /\ \A n \in NewNotifs(Target) : n.type = TargetType
        /\ \A u \in Uids \ {Target} : NewNotifs(u) = {}

\* u2 accepts the invitation of u1, who alone is told
C13_Witness ==
    /\ SingleTarget
    /\ Route("respond-project-invitation")
    /\ request.body.action = "accepted"
    /\ Target = "u1"
    /\ \E n \in NewNotifs("u1") : n.type = "project-invitation-response"
    /\ \E n \in notifs["u10"] : n.type = "project-invitation"

(***************************************************************************)
(* Properties of request validation.                                       *)
(***************************************************************************)
\* the body of an accounts request lacks a field its endpoint requires
MissingRequired ==
    \/ /\ Route("create-user")
       /\ \/ request.body.firstName = NONE \/ request.body.surname = NONE
          \/ request.body.email = NONE \/ request.body.password = NoChars
    \/ /\ Route("update-user-password")
       /\ request.body.userId = NONE \/ request.body.newPassword = NoChars
    \/ /\ Route("update-user-settings") /\ request.body.userId = NONE
    \/ /\ Route("update-user") /\ request.body.userId = NONE

\* C14: a request that lacks a required field of its endpoint (for
\* create-user: firstName, surname, email or password) is answered 400, and
\* the identities and the documents are as they were.
C14_MissingFieldRejected ==
    MissingRequired => response.code = 400 /\ Store = before

\* a password of at least 10 characters with a digit and a special character
Strong(password) ==
    /\ Len(password) >= 10
    /\ \E i \in 1..Len(password) : password[i] \in Digits
    /\ \E i \in 1..Len(password) : password[i] \in Specials

\* the password a request sets, NoChars if it sets none
PasswordSet ==
    CASE Route("create-user") -> request.body.password
      [] Route("update-user-password") -> request.body.newPassword
      [] Route("update-user") -> request.body.newPassword
      [] OTHER -> NoChars

\* C17: create-user, update-user-password and update-user with a newPassword
\* that is shorter than 10 characters or lacks a digit or a special
\* character answer 400 and leave every credential of the identity provider
\* and every stored password_hash as they were.
C17_WeakPasswordRejected ==
    (TruthyChars(PasswordSet) /\ ~Strong(PasswordSet)) =>
        /\ response.code = 400
        /\ identities = before.identities
        /\ \A u \in DOMAIN users \cap DOMAIN before.users :
              users[u].password_hash = before.users[u].password_hash

(***************************************************************************)
(* Properties of authorization.                                            *)
(***************************************************************************)
\* the comment a delete-comment request names, as the handler found it
NamedComments ==
    {c \in CommentsOf(before.comments, request.body.projectId) :
        c.id = request.body.commentId}

\* a request by a user the action is not open to: deleting a project one
\* does not own, deleting a comment one did not write, leaving one's own
\* project
Unauthorized ==
    \/ /\ Route("delete-project")
       /\ request.body.projectId \in DOMAIN before.projects
       /\ Truthy(request.body.requesterId)
       /\ request.body.requesterId
             # before.projects[request.body.projectId].ownerId
    \/ /\ Route("delete-comment")
       /\ Truthy(request.body.userId)
       /\ \E c \in NamedComments : c.userId # request.body.userId
    \/ /\ Route("leave-project")
       /\ request.body.projectId \in DOMAIN before.projects
       /\ request.body.userId = before.projects[request.body.projectId].ownerId

\* C15: delete-project by a requester who is not the owner, delete-comment
\* by a user who is not the author and leave-project by the owner answer 403
\* and leave projects, comments, notifications and everything else as they
\* were; a project that has gone was deleted by its owner, a comment that
\* has gone by its author.
C15_GuardsReject ==
    /\ Unauthorized => response.code = 403 /\ Store = before
    /\ \A p \in DOMAIN before.projects \ DOMAIN projects :
          /\ Route("delete-project") /\ request.body.projectId = p
          /\ request.body.requesterId = before.projects[p].ownerId
    /\ \A p \in DOMAIN before.comments :
          \A c \in before.comments[p] \ CommentsOf(comments, p) :
              /\ Route("delete-comment") /\ request.body.projectId = p
              /\ request.body.commentId = c.id
              /\ request.body.userId = c.userId

\* the owner of a project is refused the deletion of a member's comment
C15_Witness ==
    /\ Unauthorized
    /\ Route("delete-comment")
    /\ request.body.userId = before.projects[request.body.projectId].ownerId
    /\ response.code = 403
    /\ NamedComments \subseteq CommentsOf(comments, request.body.projectId)

\* a remove-collaborator request whose ownerId is not the project's
RemovingAsStranger ==
    /\ Route("remove-collaborator")
    /\ request.body.projectId \in DOMAIN before.projects
    /\ Truthy(request.body.collaboratorId) /\ Truthy(request.body.ownerId)
    /\ request.body.ownerId # before.projects[request.body.projectId].ownerId

\* C16: remove-collaborator with an ownerId that is not the ownerId of the
\* project answers 403, leaves team and teamIds as they were and writes no
\* "project-removal" notification.
C16_RemoveOwnerOnly ==
    RemovingAsStranger =>
        /\ response.code = 403
        /\ projects = before.projects
        /\ \A u \in Uids : \A n \in NewNotifs(u) : n.type # "project-removal"

(***************************************************************************)
(* Frame of delete-project.                                                *)
(***************************************************************************)
\* C19: a delete-project answered 200 removes the project document and
\* nothing else: the comments of the project, the notifications that carry
\* its id, the connection requests and all other documents are as they were.
C19_DeleteNotCascaded ==
    (Route("delete-project") /\ response.code = 200) =>
        /\ request.body.projectId \in DOMAIN before.projects
        /\ projects = [p \in DOMAIN before.projects \ {request.body.projectId}
                          |-> before.projects[p]]
        /\ comments = before.comments
        /\ notifs = before.notifs
        /\ requests = before.requests
        /\ users = before.users /\ identities = before.identities
        /\ messages = before.messages

\* a project is deleted while it has a comment, a pending invitation and a
\* comment notification, and a connection request is pending
C19_Witness ==
    /\ Route("delete-project") /\ response.code = 200
    /\ CommentsOf(comments, request.body.projectId) # {}
    /\ \E u \in Uids : \E n \in notifs[u] :
          /\ n.type = "project-invitation"
          /\ n.projectId = request.body.projectId
    /\ \E u \in Uids : \E n \in notifs[u] :
          n.type = "comment" /\ n.projectId = request.body.projectId
    /\ \E r \in DOMAIN requests : requests[r].status = "pending"

(***************************************************************************)
(* Properties of error handling.                                           *)
(***************************************************************************)
\* a storage call has raised while the request was served
CallFailed == "fault" \in DOMAIN request

\* C18: when a storage call raises while a request is served, whatever the
\* endpoint, send-chat-message and get-chat-messages included, the answer is
\* status 500 with a JSON body that has an `error` key.
C18_FaultsCaught ==
    CallFailed => response.code = 500 /\ "error" \in DOMAIN response.body

(***************************************************************************)
(* Properties of resolved connection requests.                             *)
(***************************************************************************)
\* the connection requests that have been accepted or rejected
Resolved ==
    {r \in DOMAIN requests : requests[r].status \in {"accepted", "rejected"}}

\* C20: once a connection request has been accepted or rejected, no step of
\* any handler, cancel-connection-request running beside
\* respond-connection-request included, deletes its record.
C20_ResolvedKept == [][\A r \in Resolved : r \in DOMAIN requests']_vars

(***************************************************************************)
(* Properties of handlers running side by side.                            *)
(***************************************************************************)
\* thread t has answered 200 to the accept of request r
Accepted200(t, r) ==
    /\ At(t, "returned")
    /\ Local(t).route = "respond-connection-request"
    /\ Local(t).body = [requestId |-> r, action |-> "accepted"]
    /\ Local(t).code = 200

\* the uids a user's connections list names
Peers(uid) == {users[uid].connections[i].uid : i \in DOMAIN users[uid].connections}

\* the two waiting requests X->A and Y->A are from different users to the
\* same one, and each has been accepted with 200 by a thread of its own
BothAccepted ==
    /\ requests[1].toUserId = requests[2].toUserId
    /\ requests[1].fromUserId # requests[2].fromUserId
    /\ \E t \in Threads : Accepted200(t, 1) /\ Accepted200(3 - t, 2)

\* one of the two handlers had returned before the other read its request
OneAfterTheOther ==
    \E t \in Threads : \E u \in Uids : \E n \in Local(t).found.notifs[u] :
        n.type = "response"

\* C21: two accepts of requests X->A and Y->A running side by side can both
\* return 200 and leave connections(A) without the entry of X or of Y (the
\* witness); what always holds is that connections(A) then names X or Y or
\* both, each once, and names both when one handler ran after the other.
C21_LostUpdate ==
    BothAccepted =>
        LET A == requests[1].toUserId
            senders == {requests[1].fromUserId, requests[2].fromUserId}
        IN /\ Peers(A) # {} /\ Peers(A) \subseteq senders
           /\ Cardinality(Peers(A)) = Len(users[A].connections)
           /\ OneAfterTheOther => Peers(A) = senders

C21_Witness ==
    /\ BothAccepted
    /\ requests[1].toUserId \notin
           {requests[1].fromUserId, requests[2].fromUserId}
    /\ Peers(requests[1].toUserId) #
           {requests[1].fromUserId, requests[2].fromUserId}


\* thread t was stopped when it had reached statement pc
StoppedAt(t, pc) == At(t, "stopped") /\ running[t].at = pc

\* an accept stopped between its two writes: the two users are different and
\* neither list it read named the other, so both writes were due
AcceptCutShort(t) ==
    /\ StoppedAt(t, "respond_write_to")
    /\ Local(t).from_user # Local(t).to_user
    /\ ~HasUid(Local(t).from_doc.data.connections, Local(t).to_user)
    /\ ~HasUid(Local(t).to_doc.data.connections, Local(t).from_user)

\* a disconnect of two connected users stopped between its two writes
DisconnectCutShort(t) ==
    /\ StoppedAt(t, "disconnect_write_other")
    /\ Local(t).user_id # Local(t).disconnect_user_id
    /\ HasUid(Local(t).user_doc.data.connections, Local(t).disconnect_user_id)
    /\ HasUid(Local(t).disconnect_doc.data.connections, Local(t).user_id)

\* C22: when an accept of a request A->B stops between its two user-document
\* writes, A lists B and B does not list A; when a disconnect(A, B) of two
\* connected users stops between its two writes, B lists A and A does not
\* list B.
C22_StoppedAsymmetric ==
    /\ AcceptCutShort(1) =>
          /\ Local(1).to_user \in Peers(Local(1).from_user)
          /\ Local(1).from_user \notin Peers(Local(1).to_user)
    /\ DisconnectCutShort(1) =>
          /\ Local(1).user_id \in Peers(Local(1).disconnect_user_id)
          /\ Local(1).disconnect_user_id \notin Peers(Local(1).user_id)

C22_Witness == DisconnectCutShort(1)


\* the notification write for some recipient of a fan-out has raised
FanOutFailed == CallFailed /\ request.route = "add-comment"

\* C23: when the notification write for some recipient of a fan-out raises,
\* the caller is answered 200, and what was written before it (the comment,
\* the notifications of earlier recipients) remains.
C23_FanOutDeclaresSuccess ==
    FanOutFailed =>
        /\ response.code = 200
        /\ comments # before.comments
        /\ \A u \in Uids : before.notifs[u] \subseteq notifs[u]


(***************************************************************************)
(* Properties of mark-messages-read.                                       *)
(***************************************************************************)
\* mark-messages-read has answered 200
Marked == Route("mark-messages-read") /\ response.code = 200

\* the message was filed in conversation c by a send-chat-message whose
\* receiverId was R: another user sent it and the conversation is theirs
SentTo(msg, c, R) ==
    /\ msg.senderId # R
    /\ c = join(sorted(UidChars(msg.senderId), UidChars(R)))

\* C24: after mark-messages-read(c, R) answers 200, every message that
\* send-chat-message had filed in c for receiver R is read, and the count
\* reported is the number of them that were unread before.
C24_AllMarkedRead ==
    Marked =>
        LET c == request.body.conversationId
            R == request.body.recipientId
            was == MessagesOf(before.messages, c)
        IN /\ \A i \in DOMAIN was :
                 SentTo(was[i], c, R) => messages[c][i].read
           /\ response.body.msg_count =
                 Cardinality({i \in DOMAIN was :
                                 SentTo(was[i], c, R) /\ ~was[i].read})

\* the notifications mark-messages-read(c, R) is to mark
ChatOf(n, c) == n.type = "chat" /\ n.conversationId = c

\* C25: after mark-messages-read(c, R) answers 200, every chat notification
\* of R for conversation c is read and every other notification, of R or of
\* anyone else, is as it was; when the notification batch fails to commit,
\* none of its updates is applied.
C25_ChatNotifsRead ==
    /\ Marked =>
          LET c == request.body.conversationId
              R == request.body.recipientId
          IN /\ \A n \in notifs[R] : ChatOf(n, c) => n.status = "read"
             /\ \A u \in Uids :
                   {n \in notifs[u] : u # R \/ ~ChatOf(n, c)} =
                   {n \in before.notifs[u] : u # R \/ ~ChatOf(n, c)}
             /\ {n.id : n \in notifs[R]} = {n.id : n \in before.notifs[R]}
    /\ (Route("mark-messages-read") /\ CallFailed) => notifs = before.notifs

C25_Witness ==
    /\ Marked
    /\ \E n \in before.notifs[request.body.recipientId] :
          UnreadChat(n, request.body.conversationId)
    /\ \E n \in notifs[request.body.recipientId] :
          ~ChatOf(n, request.body.conversationId) /\ n.status = "unread"


\* no handler is between two of its statements
Quiescent == ~cancelling.active /\ \A t \in Threads : Free(t)

\* C26: whatever the interleaving of the storage steps of
\* send-connection-request, cancel-connection-request and
\* respond-connection-request, once every handler has returned each
\* notification of type "request" names an existing connection request whose
\* status is pending.
C26_NoOrphanRequestNotif ==
    Quiescent =>
        \A u \in Uids : \A n \in notifs[u] :
            n.type = "request" =>
                /\ n.connectionRequestId \in DOMAIN requests
                /\ requests[n.connectionRequestId].status = "pending"


\* the list names no uid twice
NoDuplicatePeers(uid) ==
    \A i \in DOMAIN users[uid].connections :
    \A j \in DOMAIN users[uid].connections :
        users[uid].connections[i].uid = users[uid].connections[j].uid => i = j

\* C27: whatever the interleaving of the reads and writes of
\* respond-connection-request and disconnect handlers, self-requests and
\* crossing requests A->B, B->A included, no connections list holds two
\* entries with the same uid.
C27_NoDuplicatePeers == \A uid \in DOMAIN users : NoDuplicatePeers(uid)

\* the crossing requests u1->u2 and u2->u1 have been accepted by two threads,
\* each of which started before the other had resolved its request, and each
\* list names the other user once
C27_Witness ==
    /\ requests[2].fromUserId = "u2"
    /\ Accepted200(1, 1) /\ Accepted200(2, 2)
    /\ Local(1).found.requests[2].status = "pending"
    /\ Local(2).found.requests[1].status = "pending"
    /\ Peers("u1") = {"u2"} /\ Peers("u2") = {"u1"}


(***************************************************************************)
(* Properties of team membership.                                          *)
(***************************************************************************)
\* the uids the last request added to the teamIds of project p
Joined(p) ==
    Range(projects[p].teamIds) \
        (IF p \in DOMAIN before.projects
         THEN Range(before.projects[p].teamIds) ELSE {})

\* C28: a uid is added to a project's teamIds only by that user's
\* respond-project-invitation(accepted) on one of their notifications whose
\* type is "project-invitation" and whose projectId is that project; a
\* notification of another type carrying a projectId does not let them in.
C28_JoinOnlyByInvitation ==
    \A p \in DOMAIN projects : \A u \in Joined(p) :
        /\ Route("respond-project-invitation")
        /\ request.body.action = "accepted"
        /\ request.body.userId = u
        /\ \E n \in before.notifs[u] :
              /\ n.id = request.body.invitationId
              /\ n.type = "project-invitation"
              /\ n.projectId = p


(***************************************************************************)
(* Properties of the life of a connection request.                         *)
(***************************************************************************)
\* respond-connection-request was served for a request that was already
\* accepted or rejected
RespondingAgain ==
    /\ Route("respond-connection-request")
    /\ request.body.requestId \in DOMAIN before.requests
    /\ before.requests[request.body.requestId].status \in
           {"accepted", "rejected"}

\* C29: a connection request is resolved at most once: a status that changes
\* was pending, and respond-connection-request on a request already accepted
\* or rejected changes no request, no connections list, and writes no
\* response notification.
C29_ResolvedOnce ==
    /\ \A r \in DOMAIN requests \cap DOMAIN before.requests :
          requests[r].status # before.requests[r].status =>
              before.requests[r].status = "pending"
    /\ RespondingAgain =>
          /\ requests = before.requests
          /\ users = before.users
          /\ notifs = before.notifs

====
